---- MODULE Spec2Model ----
(***************************************************************************)
(* Verification model of the SurakshaAI phishing shield:                   *)
(*   - the desktop result panel      (src/unnamed/part_001, part_000)      *)
(*   - the page content script       (src/extension/content.js)            *)
(*   - the legacy page script        (src/extension/content_script.js)     *)
(*                                                                         *)
(* Conventions.                                                            *)
(*   Strings are sequences of one-character strings, so that case          *)
(*   conversion, trimming, splitting and slicing are computed.             *)
(*   Numbers are exact decimals held as an integer count of hundredths     *)
(*   (Num(12.5) = 1250).                                                   *)
(*   A JavaScript value is a tagged record, see the Js* constructors.      *)
(***************************************************************************)
EXTENDS Integers, Sequences, FiniteSets, TLC

VARIABLES
    program,            \* which script of the repository this behaviour runs
    raw,                \* normalizer: the classifier response being normalized
    normalized,         \* normalizer: the NormalizedRisk record, or NotYet
    isOn,               \* panel: protection toggle
    selectedLanguage,   \* panel: display language code
    lastAnalysisData,   \* panel: data of the last render started, or null
    renderSequence,     \* panel: stamp of the last render started
    resultDiv,          \* panel: what the result panel shows
    translationCache,   \* panel: (target, text) -> cached translation
    labels,             \* panel: language label, speak button and theme tooltips
    tasks,              \* panel: the async handler invocations, by start order
    running,            \* panel: the task whose continuation is running, or 0
    cachedVoices,       \* panel: the voices speechSynthesis.getVoices() lists
    synth,              \* panel: the utterances speechSynthesis holds, first one speaking
    audios,             \* panel: the Audio elements created, by creation order
    audioPlayer,        \* panel: the Audio element audioPlayer refers to, or 0 for null
    isProtectionActive, \* page: protection flag of the content script
    document,           \* page: the text nodes of the page, in document order
    highlights,         \* page: registry of highlight spans
    created,            \* page: how many nodes the script has created
    scans,              \* page: the scanPage invocations, by start order
    tooltips,           \* page: the tooltip elements appended to the body
    detached,           \* page: the text nodes the page has removed from the document
    sent                \* page: messages handed to chrome.runtime.sendMessage

normalizerVars == <<raw, normalized>>
speechVars == <<cachedVoices, synth, audios, audioPlayer>>
panelVars == <<isOn, selectedLanguage, lastAnalysisData, renderSequence, resultDiv,
               translationCache, labels, tasks, running, speechVars>>
pageVars == <<isProtectionActive, document, highlights, created, scans, tooltips,
              detached, sent>>
vars == <<program, normalizerVars, panelVars, pageVars>>

-----------------------------------------------------------------------------
(* Strings                                                                 *)

LowerChars == <<"a","b","c","d","e","f","g","h","i","j","k","l","m",
                "n","o","p","q","r","s","t","u","v","w","x","y","z">>
UpperChars == <<"A","B","C","D","E","F","G","H","I","J","K","L","M",
                "N","O","P","Q","R","S","T","U","V","W","X","Y","Z">>
DigitChars == <<"0","1","2","3","4","5","6","7","8","9">>

Range(f) == { f[i] : i \in DOMAIN f }

LowerSet == Range(LowerChars)
UpperSet == Range(UpperChars)
DigitSet == Range(DigitChars)

IsLower(c) == c \in LowerSet
IsUpper(c) == c \in UpperSet
IsDigit(c) == c \in DigitSet
IsAlpha(c) == IsLower(c) \/ IsUpper(c)

\* String.prototype.trim / the regex class \s : the white space of the model
IsSpace(c) == c \in {" ", "\n", "\t"}

\* the regex class \w
IsWordChar(c) == IsAlpha(c) \/ IsDigit(c) \/ c = "_"

IndexIn(c, table) == CHOOSE i \in DOMAIN table : table[i] = c

\* the case mappings of the letters
UpperOf == [c \in LowerSet |-> UpperChars[IndexIn(c, LowerChars)]]
LowerOf == [c \in UpperSet |-> LowerChars[IndexIn(c, UpperChars)]]

UpperChar(c) == IF IsLower(c) THEN UpperOf[c] ELSE c
LowerChar(c) == IF IsUpper(c) THEN LowerOf[c] ELSE c

\* every character mapped, as a sequence (the concatenation keeps the
\* result a tuple of characters rather than a function to re-evaluate)
toUpperCase(s) == [i \in DOMAIN s |-> UpperChar(s[i])] \o <<>>
toLowerCase(s) == [i \in DOMAIN s |-> LowerChar(s[i])] \o <<>>

RECURSIVE TrimStart(_)
TrimStart(s) ==
    IF s # <<>> /\ IsSpace(Head(s)) THEN TrimStart(Tail(s)) ELSE s

RECURSIVE TrimEnd(_)
TrimEnd(s) ==
    IF s # <<>> /\ IsSpace(s[Len(s)])
    THEN TrimEnd(SubSeq(s, 1, Len(s) - 1))
    ELSE s

trim(s) == TrimEnd(TrimStart(s))

\* Array.prototype.join
RECURSIVE join(_, _)
join(items, sep) ==
    IF items = <<>> THEN <<>>
    ELSE IF Len(items) = 1 THEN items[1]
    ELSE LET half == Len(items) \div 2
         IN join(SubSeq(items, 1, half), sep) \o sep
            \o join(SubSeq(items, half + 1, Len(items)), sep)

\* String.prototype.slice(0, n) for n >= 0
slice0(s, n) == SubSeq(s, 1, IF Len(s) < n THEN Len(s) ELSE n)

\* Array.prototype.filter
Filter(s, Test(_)) == SelectSeq(s, Test)

-----------------------------------------------------------------------------
(* JavaScript values                                                       *)

Undefined    == [t |-> "undefined"]
Null         == [t |-> "null"]
JsNum(n)     == [t |-> "number", n |-> n]      \* n counts hundredths
JsStr(s)     == [t |-> "string", s |-> s]
JsBool(b)    == [t |-> "boolean", b |-> b]
JsArr(a)     == [t |-> "array", a |-> a]       \* a sequence of values
JsObj(o)     == [t |-> "object", o |-> o]      \* a record of values

Num(whole)   == whole * 100

IsNum(v)  == v.t = "number"
IsStr(v)  == v.t = "string"
IsArr(v)  == v.t = "array"
IsObj(v)  == v.t = "object"

\* a ?? b skips undefined and null only
IsNullish(v) == v.t \in {"undefined", "null"}

\* the falsy values: undefined, null, false, 0, ''
IsFalsy(v) ==
    \/ IsNullish(v)
    \/ v.t = "boolean" /\ ~v.b
    \/ v.t = "number" /\ v.n = 0
    \/ v.t = "string" /\ v.s = <<>>

\* a || b
Or(a, b) == IF IsFalsy(a) THEN b ELSE a

\* a?.field : undefined when a is nullish or has no such property
Optional(a, field) ==
    IF IsObj(a) /\ field \in DOMAIN a.o THEN a.o[field] ELSE Undefined

RECURSIVE Digits(_)
\* decimal digits of a natural number
Digits(k) ==
    IF k < 10 THEN <<DigitChars[k + 1]>>
    ELSE Digits(k \div 10) \o <<DigitChars[(k % 10) + 1]>>

\* String(v), for the values the model feeds to it
String(v) ==
    CASE v.t = "string"    -> v.s
      [] v.t = "boolean"   -> IF v.b THEN <<"t","r","u","e">>
                                     ELSE <<"f","a","l","s","e">>
      [] v.t = "null"      -> <<"n","u","l","l">>
      [] v.t = "undefined" -> <<"u","n","d","e","f","i","n","e","d">>
      [] v.t = "number" /\ v.n >= 0 /\ v.n % 100 = 0 -> Digits(v.n \div 100)

\* Math.round: the nearest integer, halves rounded up; in and out are
\* hundredths and whole units
MathRound(n) == (n + 50) \div 100

Min(a, b) == IF a < b THEN a ELSE b
Max(a, b) == IF a > b THEN a ELSE b

-----------------------------------------------------------------------------
(* Risk normalizer (desktop panel)                                         *)

\* data.field for a non-nullish data: undefined when there is no such property
Get(data, field) ==
    IF IsObj(data) /\ field \in DOMAIN data.o THEN data.o[field] ELSE Undefined

\* typeof v === 'string' && v.trim()
IsNonBlankString(v) == IsStr(v) /\ trim(v.s) # <<>>

L_UNKNOWN    == <<"U","N","K","N","O","W","N">>
L_LOW        == <<"L","O","W">>
L_MEDIUM     == <<"M","E","D","I","U","M">>
L_HIGH       == <<"H","I","G","H">>
L_CRITICAL   == <<"C","R","I","T","I","C","A","L">>
L_SAFE       == <<"S","A","F","E">>
L_SUSPICIOUS == <<"S","U","S","P","I","C","I","O","U","S">>
L_HIGH_RISK  == <<"H","I","G","H"," ","R","I","S","K">>

\* risk_score <= 1 ? risk_score * 100 : risk_score
ScaledRiskScore(n) == IF n <= Num(1) THEN n * 100 ELSE n

\* the level rules with risk_score consulted before overall_risk
inferThreatLevel_ScoreFirst(data) ==
    IF IsFalsy(data) \/ data.t \notin {"object", "array", "null"} THEN L_UNKNOWN
    ELSE IF IsNonBlankString(Get(data, "severity"))
         THEN toUpperCase(Get(data, "severity").s)
    ELSE IF IsNum(Get(data, "risk_score"))
         THEN LET score == ScaledRiskScore(Get(data, "risk_score").n) IN
              IF score <= Num(30) THEN L_SAFE
              ELSE IF score <= Num(55) THEN L_SUSPICIOUS
              ELSE IF score <= Num(80) THEN L_HIGH_RISK
              ELSE L_CRITICAL
    ELSE IF IsNum(Get(data, "overall_risk"))
         THEN LET score == Get(data, "overall_risk").n IN
              IF score < Num(30) THEN L_LOW
              ELSE IF score < Num(60) THEN L_MEDIUM
              ELSE IF score < Num(85) THEN L_HIGH
              ELSE L_CRITICAL
    ELSE IF IsNonBlankString(Get(data, "risk_level"))
         THEN toUpperCase(Get(data, "risk_level").s)
    ELSE IF IsNonBlankString(Get(data, "result"))
         THEN toUpperCase(Get(data, "result").s)
    ELSE L_UNKNOWN

\* the level rules without the .trim() tests on the string fields
inferThreatLevel_NoTrim(data) ==
    IF IsFalsy(data) \/ data.t \notin {"object", "array", "null"} THEN L_UNKNOWN
    ELSE IF IsStr(Get(data, "severity"))
         THEN toUpperCase(Get(data, "severity").s)
    ELSE IF IsNum(Get(data, "overall_risk"))
         THEN LET score == Get(data, "overall_risk").n IN
              IF score < Num(30) THEN L_LOW
              ELSE IF score < Num(60) THEN L_MEDIUM
              ELSE IF score < Num(85) THEN L_HIGH
              ELSE L_CRITICAL
    ELSE IF IsNum(Get(data, "risk_score"))
         THEN LET score == ScaledRiskScore(Get(data, "risk_score").n) IN
              IF score <= Num(30) THEN L_SAFE
              ELSE IF score <= Num(55) THEN L_SUSPICIOUS
              ELSE IF score <= Num(80) THEN L_HIGH_RISK
              ELSE L_CRITICAL
    ELSE IF IsStr(Get(data, "risk_level"))
         THEN toUpperCase(Get(data, "risk_level").s)
    ELSE IF IsStr(Get(data, "result"))
         THEN toUpperCase(Get(data, "result").s)
    ELSE L_UNKNOWN

inferThreatLevel(data) ==
    IF IsFalsy(data) \/ data.t \notin {"object", "array", "null"} THEN L_UNKNOWN
    ELSE IF IsNonBlankString(Get(data, "severity"))
         THEN toUpperCase(Get(data, "severity").s)
    ELSE IF IsNum(Get(data, "overall_risk"))
         THEN LET score == Get(data, "overall_risk").n IN
              IF score < Num(30) THEN L_LOW
              ELSE IF score < Num(60) THEN L_MEDIUM
              ELSE IF score < Num(85) THEN L_HIGH
              ELSE L_CRITICAL
    ELSE IF IsNum(Get(data, "risk_score"))
         THEN LET score == ScaledRiskScore(Get(data, "risk_score").n) IN
              IF score <= Num(30) THEN L_SAFE
              ELSE IF score <= Num(55) THEN L_SUSPICIOUS
              ELSE IF score <= Num(80) THEN L_HIGH_RISK
              ELSE L_CRITICAL
    ELSE IF IsNonBlankString(Get(data, "risk_level"))
         THEN toUpperCase(Get(data, "risk_level").s)
    ELSE IF IsNonBlankString(Get(data, "result"))
         THEN toUpperCase(Get(data, "result").s)
    ELSE L_UNKNOWN

\* the clamp without its lower bound
ClampRound_NoLowerBound(n) == Min(100, MathRound(n))

\* Math.max(0, Math.min(100, Math.round(x)))
ClampRound(n) == Max(0, Min(100, MathRound(n)))

inferThreatScore(data) ==
    IF IsFalsy(data) \/ data.t \notin {"object", "array", "null"} THEN 0
    ELSE IF IsNum(Get(data, "threat_score"))
         THEN ClampRound(Get(data, "threat_score").n)
    ELSE IF IsNum(Get(data, "overall_risk"))
         THEN ClampRound(Get(data, "overall_risk").n)
    ELSE IF IsNum(Get(data, "risk_score"))
         THEN ClampRound(ScaledRiskScore(Get(data, "risk_score").n))
    ELSE 0

\* the delimiters without the pipe
IsDelimiter_NoPipe(c) == c \in {",", ";", "\n"}

\* the delimiters of /[,;\n|]+/
IsDelimiter(c) == c \in {",", ";", "\n", "|"}

RECURSIVE TrimDelimiters(_)
TrimDelimiters(s) ==
    IF s # <<>> /\ IsDelimiter(Head(s)) THEN TrimDelimiters(Tail(s)) ELSE s

RECURSIVE SplitRuns(_, _)
\* String.prototype.split(/[,;\n|]+/): the pieces between maximal runs of
\* delimiters; piece is the piece being read
SplitRuns(s, piece) ==
    IF s = <<>> THEN <<piece>>
    ELSE IF IsDelimiter(Head(s))
         THEN <<piece>> \o SplitRuns(TrimDelimiters(s), <<>>)
         ELSE SplitRuns(Tail(s), Append(piece, Head(s)))

NonEmpty(s) == s # <<>>

normalizeStringList(value) ==
    IF IsArr(value)
    THEN Filter([i \in DOMAIN value.a |-> trim(String(Or(value.a[i], JsStr(<<>>))))],
                NonEmpty)
    ELSE IF IsStr(value)
    THEN LET pieces == SplitRuns(value.s, <<>>) IN
         Filter([i \in DOMAIN pieces |-> trim(pieces[i])], NonEmpty)
    ELSE <<>>

\* the list left as it is, duplicates kept
uniqueValues_KeepAll(items) == items

RECURSIVE uniqueValues(_)
\* [...new Set(items)]: the first occurrence of each value, in order
uniqueValues(items) ==
    IF items = <<>> THEN <<>>
    ELSE LET init == uniqueValues(SubSeq(items, 1, Len(items) - 1))
             last == items[Len(items)]
         IN IF last \in Range(init) THEN init ELSE Append(init, last)

RECURSIVE TrimSeparators(_)
TrimSeparators(s) ==
    IF s # <<>> /\ Head(s) \in {"_", "-"} THEN TrimSeparators(Tail(s)) ELSE s

\* .replace(/[_-]+/g, ' ')
RECURSIVE ReplaceSeparators(_)
ReplaceSeparators(s) ==
    IF s = <<>> THEN <<>>
    ELSE IF Head(s) \in {"_", "-"}
         THEN <<" ">> \o ReplaceSeparators(TrimSeparators(s))
         ELSE <<Head(s)>> \o ReplaceSeparators(Tail(s))

RECURSIVE TitleWords(_, _)
\* .replace(/\w\S*/g, w => w[0].toUpperCase() + w.slice(1).toLowerCase());
\* inWord: the scan is inside a match of \w\S*
TitleWords(s, inWord) ==
    IF s = <<>> THEN <<>>
    ELSE LET c == Head(s) IN
         IF inWord
         THEN IF IsSpace(c) THEN <<c>> \o TitleWords(Tail(s), FALSE)
                            ELSE <<LowerChar(c)>> \o TitleWords(Tail(s), TRUE)
         ELSE IF IsWordChar(c) THEN <<UpperChar(c)>> \o TitleWords(Tail(s), TRUE)
                               ELSE <<c>> \o TitleWords(Tail(s), FALSE)

safeTitleCase(text) ==
    TitleWords(trim(ReplaceSeparators(String(Or(text, JsStr(<<>>))))), FALSE)

\* index of the first element of s satisfying Test, or Len(s) + 1
RECURSIVE FirstIndex(_, _, _)
FirstIndex(s, Test(_), i) ==
    IF i > Len(s) \/ Test(s[i]) THEN i ELSE FirstIndex(s, Test, i + 1)

\* index of the last element of s satisfying Test, or 0
RECURSIVE LastIndex(_, _, _)
LastIndex(s, Test(_), i) ==
    IF i < 1 \/ Test(s[i]) THEN i ELSE LastIndex(s, Test, i - 1)

IsSchemeChar(c) == IsAlpha(c) \/ IsDigit(c) \/ c \in {"+", "-", "."}
IsNotSchemeChar(c) == ~IsSchemeChar(c)
IsSlash(c) == c \in {"/", "\\"}
IsNotSlash(c) == ~IsSlash(c)
IsAuthorityEnd(c) == c \in {"/", "\\", "?", "#"}
IsAt(c) == c = "@"
IsColon(c) == c = ":"
IsForbiddenHostChar(c) ==
    c \in {" ", "\n", "\t", "#", "/", ":", "<", ">", "?", "@", "[", "\\", "]", "^", "|", "%"}

SpecialSchemes ==
    { <<"h","t","t","p">>, <<"h","t","t","p","s">>, <<"f","t","p">>,
      <<"w","s">>, <<"w","s","s">> }

\* host and port of an authority (userinfo dropped); ok is FALSE when the
\* parser rejects it
ParseAuthority(authority, special) ==
    LET at       == LastIndex(authority, IsAt, Len(authority))
        hostport == SubSeq(authority, at + 1, Len(authority))
        colon    == LastIndex(hostport, IsColon, Len(hostport))
        host     == IF colon = 0 THEN hostport ELSE SubSeq(hostport, 1, colon - 1)
        port     == IF colon = 0 THEN <<>>
                    ELSE SubSeq(hostport, colon + 1, Len(hostport))
    IN IF \E i \in DOMAIN port : ~IsDigit(port[i]) THEN [ok |-> FALSE]
       ELSE IF \E i \in DOMAIN host : IsForbiddenHostChar(host[i]) THEN [ok |-> FALSE]
       ELSE IF special /\ host = <<>> THEN [ok |-> FALSE]
       ELSE [ok |-> TRUE, hostname |-> IF special THEN toLowerCase(host) ELSE host]

\* new URL(text) without a base: [ok |-> FALSE] when it throws, else the
\* hostname property
ParseUrl(text) ==
    LET input  == trim(text)
        colon  == FirstIndex(input, IsNotSchemeChar, 1)
    IN IF input = <<>> \/ ~IsAlpha(input[1]) THEN [ok |-> FALSE]
       ELSE IF colon > Len(input) \/ input[colon] # ":" THEN [ok |-> FALSE]
       ELSE LET scheme  == toLowerCase(SubSeq(input, 1, colon - 1))
                rest    == SubSeq(input, colon + 1, Len(input))
                special == scheme \in SpecialSchemes
            IN IF special
               THEN LET afterSlashes ==
                            SubSeq(rest, FirstIndex(rest, IsNotSlash, 1), Len(rest))
                        stop == FirstIndex(afterSlashes, IsAuthorityEnd, 1)
                    IN ParseAuthority(SubSeq(afterSlashes, 1, stop - 1), TRUE)
               ELSE IF Len(rest) >= 2 /\ rest[1] = "/" /\ rest[2] = "/"
               THEN LET after == SubSeq(rest, 3, Len(rest))
                        stop  == FirstIndex(after, IsAuthorityEnd, 1)
                    IN ParseAuthority(SubSeq(after, 1, stop - 1), FALSE)
               ELSE [ok |-> TRUE, hostname |-> <<>>]

RECURSIVE LinkDomains(_)
\* the loop of extractDomainsFromLinks: hostnames of the candidates that parse
LinkDomains(candidates) ==
    IF candidates = <<>> THEN <<>>
    ELSE LET parsed == ParseUrl(Head(candidates)) IN
         (IF parsed.ok /\ parsed.hostname # <<>>
          THEN <<toLowerCase(parsed.hostname)>> ELSE <<>>)
         \o LinkDomains(Tail(candidates))

\* the links taken as domain entries, the malformed ones kept as literals
extractDomainsFromLinks_KeepMalformed(links) ==
    LET candidates == normalizeStringList(links) IN
    uniqueValues([i \in DOMAIN candidates |-> toLowerCase(candidates[i])])

extractDomainsFromLinks(links) == uniqueValues(LinkDomains(normalizeStringList(links)))

S_Unknown == <<"U","n","k","n","o","w","n">>
S_CommaSpace == <<",", " ">>
S_ExternalLinkPresent ==
    <<"E","x","t","e","r","n","a","l"," ","l","i","n","k"," ",
      "p","r","e","s","e","n","t">>

\* a ?? b
Coalesce(a, b) == IF IsNullish(a) THEN b ELSE a

\* the language lookup without its 'Unknown' defaults
resolveDetectedLanguage_NoDefault(data) ==
    LET candidate ==
            Coalesce(Get(data, "detected_language"),
            Coalesce(Get(data, "detected_languages"),
            Coalesce(Get(data, "language"), Get(data, "lang"))))
    IN IF IsArr(candidate) THEN join(normalizeStringList(candidate), S_CommaSpace)
       ELSE trim(String(Or(candidate, JsStr(<<>>))))

resolveDetectedLanguage_FirstTruthy(data) ==
    LET candidate ==
            Or(Get(data, "detected_language"),
            Or(Get(data, "detected_languages"),
            Or(Get(data, "language"),
            Or(Get(data, "lang"), JsStr(S_Unknown)))))
    IN IF IsArr(candidate)
       THEN LET list == normalizeStringList(candidate) IN
            IF list # <<>> THEN join(list, S_CommaSpace) ELSE S_Unknown
       ELSE LET asText == trim(String(Or(candidate, JsStr(<<>>)))) IN
            IF asText # <<>> THEN asText ELSE S_Unknown

resolveDetectedLanguage(data) ==
    LET candidate ==
            Coalesce(Get(data, "detected_language"),
            Coalesce(Get(data, "detected_languages"),
            Coalesce(Get(data, "language"),
            Coalesce(Get(data, "lang"), JsStr(S_Unknown)))))
    IN IF IsArr(candidate)
       THEN LET list == normalizeStringList(candidate) IN
            IF list # <<>> THEN join(list, S_CommaSpace) ELSE S_Unknown
       ELSE LET asText == trim(String(Or(candidate, JsStr(<<>>)))) IN
            IF asText # <<>> THEN asText ELSE S_Unknown

ManipulationRadarList_TitleCaseAll(data) ==
    LET first  == normalizeStringList(
                      Or(Get(data, "manipulation_radars"), Get(data, "manipulation_radar")))
        second == IF first # <<>> THEN first
                  ELSE normalizeStringList(
                           Optional(Get(data, "genai_validation"), "tactics"))
        signals == normalizeStringList(Get(data, "detected_signals"))
        chosen == IF second # <<>> THEN second ELSE signals
    IN [i \in DOMAIN chosen |-> safeTitleCase(JsStr(chosen[i]))]

\* the list resolveManipulationRadars holds when it returns (radars)
ManipulationRadarList(data) ==
    LET first  == normalizeStringList(
                      Or(Get(data, "manipulation_radars"), Get(data, "manipulation_radar")))
        second == IF first # <<>> THEN first
                  ELSE normalizeStringList(
                           Optional(Get(data, "genai_validation"), "tactics"))
        signals == normalizeStringList(Get(data, "detected_signals"))
    IN IF second # <<>> THEN second
       ELSE [i \in DOMAIN signals |-> safeTitleCase(JsStr(signals[i]))]

resolveManipulationRadars(data) == uniqueValues(ManipulationRadarList(data))

\* the list resolveTechnicalIndicators holds when it returns (indicators)
TechnicalIndicatorList(data) ==
    LET first  == normalizeStringList(
                      Or(Get(data, "technical_indicators"), Get(data, "technical_indicator")))
        second == IF first # <<>> THEN first
                  ELSE normalizeStringList(
                           Optional(Get(data, "structured_explanation"),
                                    "technical_indicators"))
    IN IF second = <<>> /\ normalizeStringList(Get(data, "links")) # <<>>
       THEN <<S_ExternalLinkPresent>>
       ELSE second

resolveTechnicalIndicators(data) == uniqueValues(TechnicalIndicatorList(data))

\* the map callback of resolveSuspiciousDomains
NormalizeDomainEntry(entry) ==
    LET rawEntry == trim(entry)
        parsed   == ParseUrl(rawEntry)
    IN IF parsed.ok THEN toLowerCase(parsed.hostname) ELSE toLowerCase(rawEntry)

\* the list resolveSuspiciousDomains holds when it returns (domains)
SuspiciousDomainList(data) ==
    LET listed == normalizeStringList(
                      Or(Get(data, "suspicious_domains"), Get(data, "suspicious_domain")))
    IN IF listed = <<>> THEN extractDomainsFromLinks(Get(data, "links"))
       ELSE [i \in DOMAIN listed |-> NormalizeDomainEntry(listed[i])]

resolveSuspiciousDomains(data) == uniqueValues(SuspiciousDomainList(data))

\* the six values renderAnalysis derives from the response
NormalizedRisk(data) ==
    [ level               |-> inferThreatLevel(data),
      score               |-> inferThreatScore(data),
      detectedLanguage    |-> resolveDetectedLanguage(data),
      manipulationSignals |-> resolveManipulationRadars(data),
      technicalIndicators |-> resolveTechnicalIndicators(data),
      suspiciousDomains   |-> resolveSuspiciousDomains(data) ]

-----------------------------------------------------------------------------
(* Classifier responses fed to the normalizer                              *)

NotYet == [t |-> "not yet"]

s_high    == <<"h","i","g","h">>
s_Safe    == <<"S","a","f","e">>
s_padded  == <<" ","l","o","w"," ">>
s_phishy  == <<"p","h","i","s","h","y">>
s_blank   == <<" ", " ">>
s_hi      == <<"h","i">>
s_Tamil   == <<"T","a","m","i","l">>
s_80      == <<"8","0">>

LevelFields == {"severity", "overall_risk", "risk_score", "risk_level", "result",
                "threat_score"}
LanguageFields == {"detected_language", "detected_languages", "language", "lang"}
SignalFields == {"manipulation_radars", "manipulation_radar", "genai_validation",
                 "detected_signals"}
IndicatorFields == {"technical_indicators", "technical_indicator",
                    "structured_explanation", "links"}
DomainFields == {"suspicious_domains", "suspicious_domain", "links"}

KnownFields ==
    LevelFields \cup LanguageFields \cup SignalFields \cup IndicatorFields
        \cup DomainFields

\* fields a backend may send that the normalizer never reads
UnknownFields == {"threats", "method", "scanned_blocks"}

SeverityValues ==
    { Undefined, JsStr(<<>>), JsStr(s_blank), JsStr(s_high), JsStr(s_phishy),
      JsNum(Num(3)) }
RiskLevelValues ==
    { Undefined, JsStr(s_blank), JsStr(s_Safe) }
ResultValues ==
    { Undefined, Null, JsStr(s_Safe), JsStr(s_padded) }
OverallRiskValues ==
    { Undefined, JsStr(s_80), JsNum(Num(0) - 50), JsNum(2999), JsNum(Num(30)),
      JsNum(5999), JsNum(8499), JsNum(Num(150)) }
RiskScoreValues ==
    { Undefined, JsStr(s_80), JsNum(0 - 20), JsNum(30), JsNum(31), JsNum(55),
      JsNum(56), JsNum(80), JsNum(81), JsNum(100), JsNum(101), JsNum(Num(30)),
      JsNum(3001), JsNum(5550), JsNum(8049), JsNum(Num(250)) }
ThreatScoreValues ==
    { Undefined, JsStr(s_80), JsNum(0 - 51), JsNum(4949), JsNum(4950),
      JsNum(Num(100) + 1) }

Blank == [f \in KnownFields |-> Undefined]

LevelResponses ==
    { JsObj([Blank EXCEPT !["severity"] = r.severity,
                          !["overall_risk"] = r.overall_risk,
                          !["risk_score"] = r.risk_score,
                          !["risk_level"] = r.risk_level,
                          !["result"] = r.result,
                          !["threat_score"] = r.threat_score]) :
        r \in [ severity : SeverityValues, overall_risk : OverallRiskValues,
                risk_score : RiskScoreValues, risk_level : RiskLevelValues,
                result : ResultValues, threat_score : ThreatScoreValues ] }

\* responses that carry no known field, only fields the normalizer ignores
UnknownOnlyResponses ==
    { JsObj([f \in KnownFields \cup present |->
                IF f \in KnownFields THEN Undefined ELSE JsStr(s_hi)]) :
        present \in SUBSET UnknownFields }
    \cup { JsObj([f \in present |-> JsNum(Num(7))]) : present \in SUBSET UnknownFields }

\* bounds of the list-valued fields
MaxListLen == 3
MaxDomainLen == 2

\* the sequences over S of length at most n
SeqsUpTo(S, n) == UNION { [1..k -> S] : k \in 0..n }

s_Urgency     == <<"U","r","g","e","n","c","y">>
s_Fear        == <<"F","e","a","r">>
s_FearPadded  == <<" ","F","e","a","r"," ">>
s_urgent_tone == <<"u","r","g","e","n","t","_","t","o","n","e">>
s_urgent_dash == <<"u","r","g","e","n","t","-","t","o","n","e">>

\* items of a list-valued field: strings, padded, empty, and null
ListItems == { JsStr(s_Urgency), JsStr(s_Fear), JsStr(s_FearPadded), JsStr(<<>>), Null }
SignalItems == { JsStr(s_urgent_tone), JsStr(s_urgent_dash), JsStr(s_Fear) }

Delimiters == {",", ";", "\n", "|"}

\* the text of an item as it is written into a delimited string
ItemText(item) == IF IsStr(item) THEN item.s ELSE <<>>

\* the items written as one string, delimiter d between neighbours
Delimited(items, d) == JsStr(join([i \in DOMAIN items |-> ItemText(items[i])], <<d>>))

ListArrays == SeqsUpTo(ListItems, MaxListLen) \cup SeqsUpTo(SignalItems, MaxListLen)

\* a list-valued field as a list, and as a delimited string
ListValues ==
    { JsArr(a) : a \in ListArrays }
    \cup { Delimited(a, d) : a \in ListArrays, d \in Delimiters }

TopListFields == {"manipulation_radars", "manipulation_radar", "detected_signals",
                  "technical_indicators", "technical_indicator"}

ListResponses ==
    { JsObj([Blank EXCEPT ![f] = v]) : f \in TopListFields, v \in ListValues }
    \cup { JsObj([Blank EXCEPT !["genai_validation"] = JsObj([tactics |-> v])]) :
               v \in ListValues }
    \cup { JsObj([Blank EXCEPT !["structured_explanation"] =
                                    JsObj([technical_indicators |-> v])]) :
               v \in ListValues }

d_url  == <<"h","t","t","p","s",":","/","/","E","v","i","l",".","E","x","a","m","p","l","e",".","c","o","m","/","a">>
d_not  == <<"n","o","t"," ","a"," ","u","r","l">>
d_bare == <<"E","v","i","l",".","E","x","a","m","p","l","e",".","c","o","m">>
d_port == <<"H","T","T","P",":","/","/","e","v","i","l",".","e","x","a","m","p","l","e",".","c","o","m",":","8","0","8","0","/","x">>
d_mail == <<"m","a","i","l","t","o",":","a","@","b",".","c">>

DomainItems == { JsStr(d_url), JsStr(d_not), JsStr(d_bare), JsStr(d_port), JsStr(d_mail) }

DomainArrays == SeqsUpTo(DomainItems, MaxDomainLen)

\* responses with a domain list, a links list, or both
DomainResponses ==
    { JsObj([Blank EXCEPT !["suspicious_domains"] = JsArr(a)]) : a \in DomainArrays }
    \cup { JsObj([Blank EXCEPT !["suspicious_domain"] = v]) : v \in DomainItems }
    \cup { JsObj([Blank EXCEPT !["suspicious_domains"] = JsArr(<<>>),
                                !["suspicious_domain"] = v]) : v \in DomainItems }
    \cup { JsObj([Blank EXCEPT !["links"] = JsArr(a)]) : a \in DomainArrays }
    \cup { JsObj([Blank EXCEPT !["links"] = Delimited(a, d)]) :
               a \in DomainArrays, d \in Delimiters }
    \cup { JsObj([Blank EXCEPT !["suspicious_domains"] = JsArr(a),
                                !["links"] = JsArr(<<l>>)]) :
               a \in DomainArrays, l \in DomainItems }

\* what one source of manipulation signals may hold: nothing, an empty list,
\* a blank string, or a list of the one item
SourceValues(item) ==
    { Undefined, JsArr(<<>>), JsStr(s_blank), JsArr(<<JsStr(item)>>) }

\* responses with every combination of the four sources of manipulation
\* signals, each with an item that title case would change
PriorityResponses ==
    { JsObj([Blank EXCEPT !["manipulation_radars"] = a,
                          !["manipulation_radar"] = b,
                          !["genai_validation"] =
                              IF c = Undefined THEN Undefined ELSE JsObj([tactics |-> c]),
                          !["detected_signals"] = d]) :
        a \in SourceValues(s_urgent_tone), b \in SourceValues(s_urgent_dash),
        c \in SourceValues(s_urgent_dash), d \in SourceValues(s_urgent_tone) }

l_hi == <<"h","i">>
l_ta == <<"t","a">>
l_mr == <<"m","r">>
l_bn == <<"b","n">>
l_en == <<"e","n">>

\* what a language field may hold: nothing, null, an empty or a blank
\* string, a language, an empty list, a list of two languages
LanguageValues(item) ==
    { Undefined, Null, JsStr(<<>>), JsStr(s_blank), JsStr(item), JsArr(<<>>),
      JsArr(<<JsStr(item), JsStr(l_en)>>) }

\* responses with every combination of the four language fields
LanguageResponses ==
    { JsObj([Blank EXCEPT !["detected_language"] = a,
                          !["detected_languages"] = b,
                          !["language"] = c,
                          !["lang"] = d]) :
        a \in LanguageValues(l_hi), b \in LanguageValues(l_ta),
        c \in LanguageValues(l_mr), d \in LanguageValues(l_bn) }

Responses == LevelResponses \cup UnknownOnlyResponses

\* responses that carry a list-valued field
CollectionResponses == ListResponses \cup DomainResponses

-----------------------------------------------------------------------------
(* Desktop result panel (src/unnamed/part_001)                             *)

\* bounds of the panel model
MaxAnalyzeEvents == 1
MaxOverlappingEvents == 2
MaxLanguageChanges == 2
MaxTranslateFailures == 1
MaxThemeClicks == 2
NumLabels == 1

\* UI literals
T_NoText ==
    <<"N","o"," ","t","e","x","t"," ","c","a","p","t","u","r","e","d","."," ","S",
      "e","l","e","c","t"," ","t","e","x","t"," ","a","n","d"," ","p","r","e","s",
      "s"," ","C","t","r","l","+","C",","," ","t","h","e","n"," ","C","t","r","l",
      "+","S","h","i","f","t","+","X",".">>
T_Analyzing == <<"A","n","a","l","y","z","i","n","g",".",".",".">>
T_BackendDown ==
    <<"B","a","c","k","e","n","d"," ","n","o","t"," ","r","u","n","n","i","n","g",
      "!">>
T_NoneDetected == <<"N","o","n","e"," ","d","e","t","e","c","t","e","d">>
T_DisplayLanguage == <<"D","i","s","p","l","a","y"," ","L","a","n","g","u","a","g","e">>
T_SpeakSummary == <<"S","p","e","a","k"," ","s","u","m","m","a","r","y">>
T_ToggleTheme == <<"T","o","g","g","l","e"," ","t","h","e","m","e">>
T_ThreatLevel == <<"T","h","r","e","a","t"," ","L","e","v","e","l">>
T_ThreatScore == <<"T","h","r","e","a","t"," ","S","c","o","r","e">>
T_DetectedLanguage ==
    <<"D","e","t","e","c","t","e","d"," ","L","a","n","g","u","a","g","e">>
T_ManipulationRadar ==
    <<"M","a","n","i","p","u","l","a","t","i","o","n"," ","R","a","d","a","r">>
T_TechnicalIndicators ==
    <<"T","e","c","h","n","i","c","a","l"," ","I","n","d","i","c","a","t","o","r",
      "s">>
T_SuspiciousDomains ==
    <<"S","u","s","p","i","c","i","o","u","s"," ","D","o","m","a","i","n","s">>

\* the six label literals renderAnalysis translates, in call order
RenderLabels ==
    << T_ThreatLevel, T_ThreatScore, T_DetectedLanguage, T_ManipulationRadar,
       T_TechnicalIndicators, T_SuspiciousDomains >>

\* the labels the model carries through translation: the first NumLabels
ModelledLabels == SubSeq(RenderLabels, 1, Min(NumLabels, Len(RenderLabels)))

\* the display languages of the model, a subset of LANGUAGE_OPTIONS
Languages == {"en", "brx"}

TRANSLATE_TARGET_MAP == [ en |-> "en", hi |-> "hi", brx |-> "hi" ]

\* TRANSLATE_TARGET_MAP[code] || 'en'
TargetOf(code) ==
    IF code \in DOMAIN TRANSLATE_TARGET_MAP THEN TRANSLATE_TARGET_MAP[code] ELSE "en"

getTranslateTarget == TargetOf(selectedLanguage)

\* `${languageCode}::${text}`
cacheKey(languageCode, text) == <<languageCode, ":", ":">> \o text

\* the text of a cache key
KeyText(key) == SubSeq(key, 4, Len(key))

\* what the translation service answers for a text: a string that differs
\* from the text and is determined by (target, text)
Translated(target, text) == <<target, ":">> \o text

ResolvesAtOnce_NoCache(text, target) == trim(text) = <<>> \/ target = "en"

\* translateText returns before any suspension: blank text, English target
\* or a cached pair
ResolvesAtOnce(text, target) ==
    \/ trim(text) = <<>>
    \/ target = "en"
    \/ cacheKey(target, text) \in DOMAIN translationCache

ValueAtOnce(text, target) ==
    IF trim(text) = <<>> \/ target = "en" THEN text
    ELSE translationCache[cacheKey(target, text)]

\* the slot of a translateText call that has not settled
Pending == <<"pending">>

NewTask(kind, payload) ==
    [ kind |-> kind, pc |-> "new", payload |-> payload, data |-> Null,
      norm |-> NotYet, stamp |-> 0, target |-> "en", calls |-> <<>>,
      got |-> <<>>, requests |-> <<>>, statuses |-> <<>>, overtaken |-> FALSE ]

\* the calls of the task's current await that have not settled
PendingCalls(task) == { i \in DOMAIN task.got : task.got[i] = Pending }

\* the translation service answers the calls of one await in call order;
\* the awaits of different invocations race freely
Answerable(task) ==
    { i \in PendingCalls(task) : \A j \in PendingCalls(task) : i <= j }

\* the task calls translateText on each of texts, in order, and awaits them
\* all; it resumes at pc when none is pending
AwaitIn(task, texts, pc, target) ==
    [ task EXCEPT !.pc = pc, !.target = target, !.calls = texts,
                  !.got = [i \in DOMAIN texts |->
                              IF ResolvesAtOnce(texts[i], target)
                              THEN ValueAtOnce(texts[i], target) ELSE Pending] ]

Await(task, texts, pc) == AwaitIn(task, texts, pc, getTranslateTarget)

\* a finished invocation: its locals are gone
Finish(task, pc) ==
    [ NewTask(task.kind, <<>>) EXCEPT !.pc = pc, !.stamp = task.stamp,
                                      !.overtaken = task.overtaken ]

\* the task id to hand the processor to after a step of task
NextRunning(id, task) ==
    IF PendingCalls(task) = {} /\ task.pc # "ignored" THEN id ELSE 0

manipulationText(norm) == join(norm.manipulationSignals, S_CommaSpace)
technicalText(norm) == join(norm.technicalIndicators, S_CommaSpace)
domainsText(norm) == join(norm.suspiciousDomains, S_CommaSpace)

\* the translateText calls of renderAnalysis, in call order (lines 518-530)
RenderTexts(norm) ==
    ModelledLabels
    \o << norm.level, norm.detectedLanguage, T_NoneDetected >>
    \o (IF norm.manipulationSignals # <<>> THEN <<manipulationText(norm)>> ELSE <<>>)
    \o (IF norm.technicalIndicators # <<>> THEN <<technicalText(norm)>> ELSE <<>>)

\* every render still awaiting its translations has now been overtaken
MarkOvertaken(ts) ==
    [i \in DOMAIN ts |->
        IF ts[i].pc = "render" THEN [ts[i] EXCEPT !.overtaken = TRUE] ELSE ts[i]]

renderAnalysis_StampBeforeIncrement(id, task, data) ==
    \E norm \in { NormalizedRisk(data) } :
    \E texts \in { RenderTexts(norm) } :
    \E next \in { Await([task EXCEPT !.data = data, !.norm = norm,
                                     !.stamp = renderSequence],
                        texts, "render") } :
        /\ lastAnalysisData' = data
        /\ renderSequence' = renderSequence + 1
        /\ tasks' = [MarkOvertaken(tasks) EXCEPT ![id] = next]
        /\ running' = NextRunning(id, next)

\* renderAnalysis(data) up to its await, run by task id: record the data,
\* stamp the render, derive the six values and start the translations
renderAnalysis(id, task, data) ==
    \E norm \in { NormalizedRisk(data) } :
    \E texts \in { RenderTexts(norm) } :
    \E next \in { Await([task EXCEPT !.data = data, !.norm = norm,
                                     !.stamp = renderSequence + 1],
                        texts, "render") } :
        /\ lastAnalysisData' = data
        /\ renderSequence' = renderSequence + 1
        /\ tasks' = [MarkOvertaken(tasks) EXCEPT ![id] = next]
        /\ running' = NextRunning(id, next)

EmptyView ==
    [ labels |-> <<>>, level |-> <<>>, score |-> 0, language |-> <<>>,
      manipulation |-> <<>>, technical |-> <<>>, domains |-> <<>> ]

ShowText(text, id) == [ kind |-> "text", text |-> text, view |-> EmptyView, by |-> id ]

\* the panel content renderAnalysis writes (lines 534-545); escapeHtml and
\* the HTML parser cancel out, so the view holds the visible strings
AnalysisView(task) ==
    LET norm == task.norm
        n    == Len(ModelledLabels)
        m    == IF norm.manipulationSignals # <<>> THEN 1 ELSE 0
        none == task.got[n + 3]
    IN [ labels       |-> SubSeq(task.got, 1, n),
         level        |-> task.got[n + 1],
         score        |-> norm.score,
         language     |-> task.got[n + 2],
         manipulation |-> IF norm.manipulationSignals # <<>>
                          THEN task.got[n + 4] ELSE none,
         technical    |-> IF norm.technicalIndicators # <<>>
                          THEN task.got[n + 4 + m] ELSE none,
         domains      |-> IF norm.suspiciousDomains # <<>>
                          THEN domainsText(norm) ELSE none ]

IsStale_Never(task) == FALSE

\* if (currentRender !== renderSequence) return;
IsStale(task) == task.stamp # renderSequence

\* the clipboard texts the shortcut may deliver
s_message == <<"o","t","p"," ","b","a","t","a","o">>
PayloadTexts == { s_blank, s_message }

\* the classifier answers the panel may get with status 200
PanelResponses ==
    { JsObj([Blank EXCEPT !["risk_score"] = JsNum(10),
                          !["detected_language"] = JsStr(s_hi)]),
      JsObj([Blank EXCEPT !["risk_score"] = JsNum(2000)]) }

Unparsable == [t |-> "unparsable"]

\* what a classification fetch may settle to: a response (status and body)
\* or a network error
ClassifierOutcomes ==
    { [kind |-> "response", status |-> 200, body |-> d] : d \in PanelResponses }
    \cup { [kind |-> "response", status |-> 200, body |-> b] : b \in {Unparsable, Null} }
    \cup { [kind |-> "response", status |-> s, body |-> Null] : s \in {404, 500} }
    \cup { [kind |-> "error", status |-> 0, body |-> Null] }

\* response.ok
IsOk(status) == 200 <= status /\ status <= 299

InitPanelCore ==
    /\ isOn = TRUE
    /\ selectedLanguage = "en"
    /\ lastAnalysisData = Null
    /\ renderSequence = 0
    /\ resultDiv = [ kind |-> "initial", text |-> <<>>, view |-> EmptyView, by |-> 0 ]
    /\ translationCache = <<>>
    /\ labels = [ language |-> T_DisplayLanguage, speak |-> T_SpeakSummary,
                  theme |-> T_ToggleTheme ]
    /\ tasks = <<>>
    /\ running = 0

PanelReady == program = "panel" /\ running = 0

\* how many handler invocations of a kind have started
Started(kind) == Cardinality({ i \in DOMAIN tasks : tasks[i].kind = kind })

\* how many translation fetches have failed so far
Failures ==
    Cardinality({ key \in DOMAIN translationCache : translationCache[key] = KeyText(key) })

\* the handler without its isOn guard
StartAnalyze_IgnoresToggle(text) ==
    /\ PanelReady
    /\ LET id   == Len(tasks) + 1
           task == NewTask("analyze", text)
           next == IF trim(String(Or(JsStr(text), JsStr(<<>>)))) = <<>>
                   THEN Await(task, <<T_NoText>>, "notext")
                   ELSE Await(task, <<T_Analyzing>>, "analyzing")
       IN /\ tasks' = Append(tasks, next)
          /\ running' = NextRunning(id, next)
    /\ UNCHANGED <<program, normalizerVars, pageVars, speechVars, isOn, selectedLanguage, lastAnalysisData,
                   renderSequence, resultDiv, translationCache, labels>>

\* ipcRenderer.on('analyze-text') up to its first suspension
StartAnalyze(text) ==
    /\ PanelReady
    /\ LET id   == Len(tasks) + 1
           task == NewTask("analyze", text)
           next == IF ~isOn THEN [task EXCEPT !.pc = "ignored"]
                   ELSE IF trim(String(Or(JsStr(text), JsStr(<<>>)))) = <<>>
                   THEN Await(task, <<T_NoText>>, "notext")
                   ELSE Await(task, <<T_Analyzing>>, "analyzing")
       IN /\ tasks' = Append(tasks, next)
          /\ running' = NextRunning(id, next)
    /\ UNCHANGED <<program, normalizerVars, pageVars, speechVars, isOn, selectedLanguage, lastAnalysisData,
                   renderSequence, resultDiv, translationCache, labels>>

\* an analyze-text event, up to MaxAnalyzeEvents of them
AnalyzeText(text) ==
    /\ Started("analyze") < MaxAnalyzeEvents
    /\ StartAnalyze(text)

\* an analyze-text event that may come while earlier ones are in flight
AnalyzeTextOverlapping(text) ==
    /\ Started("analyze") < MaxOverlappingEvents
    /\ StartAnalyze(text)

\* resultDiv.innerText = <the translated 'No text captured...'>; return
ShowNoText(id) ==
    /\ program = "panel" /\ running = id
    /\ tasks[id].pc = "notext"
    /\ resultDiv' = ShowText(tasks[id].got[1], id)
    /\ tasks' = [tasks EXCEPT ![id] = Finish(@, "noTextShown")]
    /\ running' = 0
    /\ UNCHANGED <<program, normalizerVars, pageVars, speechVars, isOn, selectedLanguage, lastAnalysisData,
                   renderSequence, translationCache, labels>>

\* resultDiv.innerText = <the translated 'Analyzing...'>, then the POST to
\* API_BASE/analyze
ShowAnalyzing(id) ==
    /\ program = "panel" /\ running = id
    /\ tasks[id].pc = "analyzing"
    /\ resultDiv' = ShowText(tasks[id].got[1], id)
    /\ tasks' = [tasks EXCEPT
                   ![id].pc = "fetch1",
                   ![id].requests = <<[path |-> "/analyze", body |-> tasks[id].payload,
                                       signal |-> "none"]>>]
    /\ running' = 0
    /\ UNCHANGED <<program, normalizerVars, pageVars, speechVars, isOn, selectedLanguage, lastAnalysisData,
                   renderSequence, translationCache, labels>>

\* resolveDetectedLanguage(data) raises a TypeError on data.detected_language:
\* inferThreatLevel and inferThreatScore return for a null data, the next
\* call reads a property of it
RenderThrows(data) == IsNullish(data)

\* a classification fetch settles: retry on 404, throw on a status that is
\* not ok or on an unreadable body, else renderAnalysis(data); a render
\* that throws has recorded the data and stamped itself before it does
ClassifierResponds(id, outcome) ==
    /\ PanelReady
    /\ id \in DOMAIN tasks
    /\ tasks[id].pc \in {"fetch1", "fetch2"}
    /\ LET task   == tasks[id]
           seen   == IF outcome.kind = "response"
                     THEN [task EXCEPT !.statuses = Append(@, outcome.status)]
                     ELSE task
           retry  == /\ outcome.kind = "response"
                     /\ outcome.status = 404
                     /\ task.pc = "fetch1"
           thrown == \/ outcome.kind = "error"
                     \/ ~IsOk(outcome.status)
                     \/ outcome.body = Unparsable
       IN IF retry
          THEN /\ tasks' = [tasks EXCEPT ![id] =
                              [seen EXCEPT !.pc = "fetch2",
                                           !.requests = Append(@,
                                               [path |-> "/analyze_text",
                                                body |-> task.payload,
                                                signal |-> "none"])]]
               /\ running' = 0
               /\ UNCHANGED <<lastAnalysisData, renderSequence>>
          ELSE IF thrown
          THEN LET next == Await(seen, <<T_BackendDown>>, "failed") IN
               /\ tasks' = [tasks EXCEPT ![id] = next]
               /\ running' = NextRunning(id, next)
               /\ UNCHANGED <<lastAnalysisData, renderSequence>>
          ELSE IF RenderThrows(outcome.body)
          THEN LET next == Await(seen, <<T_BackendDown>>, "failed") IN
               /\ lastAnalysisData' = outcome.body
               /\ renderSequence' = renderSequence + 1
               /\ tasks' = [MarkOvertaken(tasks) EXCEPT ![id] = next]
               /\ running' = NextRunning(id, next)
          ELSE renderAnalysis(id, seen, outcome.body)
    /\ UNCHANGED <<program, normalizerVars, pageVars, speechVars, isOn, selectedLanguage, resultDiv,
                   translationCache, labels>>

\* a catch block that also forgets the last analysis
ShowBackendDown_ClearsRecord(id) ==
    /\ program = "panel" /\ running = id
    /\ tasks[id].pc = "failed"
    /\ resultDiv' = ShowText(tasks[id].got[1], id)
    /\ tasks' = [tasks EXCEPT ![id] = Finish(@, "failureShown")]
    /\ running' = 0
    /\ lastAnalysisData' = Null
    /\ UNCHANGED <<program, normalizerVars, pageVars, speechVars, isOn, selectedLanguage,
                   renderSequence, translationCache, labels>>

\* catch { resultDiv.innerText = <the translated 'Backend not running!'> }
ShowBackendDown(id) ==
    /\ program = "panel" /\ running = id
    /\ tasks[id].pc = "failed"
    /\ resultDiv' = ShowText(tasks[id].got[1], id)
    /\ tasks' = [tasks EXCEPT ![id] = Finish(@, "failureShown")]
    /\ running' = 0
    /\ UNCHANGED <<program, normalizerVars, pageVars, speechVars, isOn, selectedLanguage, lastAnalysisData,
                   renderSequence, translationCache, labels>>

\* renderAnalysis after its await: the staleness guard, then the panel write
ApplyRender(id) ==
    /\ program = "panel" /\ running = id
    /\ tasks[id].pc = "render"
    /\ IF IsStale(tasks[id])
       THEN /\ tasks' = [tasks EXCEPT ![id] = Finish(@, "dropped")]
            /\ UNCHANGED resultDiv
       ELSE /\ tasks' = [tasks EXCEPT ![id] = Finish(@, "applied")]
            /\ resultDiv' = [ kind |-> "analysis", text |-> <<>>,
                              view |-> AnalysisView(tasks[id]), by |-> id ]
    /\ running' = 0
    /\ UNCHANGED <<program, normalizerVars, pageVars, speechVars, isOn, selectedLanguage, lastAnalysisData,
                   renderSequence, translationCache, labels>>

\* the analyze-text handler alone, its events overlapping, in the initial
\* display language
NextOverlap ==
    \/ \E text \in PayloadTexts : AnalyzeTextOverlapping(text)
    \/ \E id \in DOMAIN tasks :
          \/ ShowNoText(id)
          \/ ShowAnalyzing(id)
          \/ \E outcome \in ClassifierOutcomes : ClassifierResponds(id, outcome)
          \/ ShowBackendDown(id)
          \/ ApplyRender(id)

\* what the translation service may do with one request
TranslateAnswers ==
    { "translated", "parts", "status", "network", "unreadable", "null",
      "object", "noparts", "flat", "blank" }

s_error == <<"e","r","r","o","r">>

\* the fetch outcome of each answer: a payload [[[translation, source]]],
\* one in two parts or a long one in four, a status that is not ok, a network error, a body that
\* is not JSON, and payloads that are not of that shape or hold no text
ServiceOutcome(answer, target, text) ==
    LET ok(body) == [kind |-> "response", status |-> 200, body |-> body]
    IN CASE answer = "translated" ->
              ok(JsArr(<< JsArr(<< JsArr(<< JsStr(Translated(target, text)),
                                            JsStr(text) >>) >>) >>))
         [] answer = "parts" ->
              ok(JsArr(<< JsArr(<< JsArr(<< JsStr(<<target, ":">>) >>),
                                   JsArr(<< JsStr(text), Null >>) >>) >>))
         [] answer = "long" ->
              ok(JsArr(<< JsArr(<< JsArr(<< JsStr(Translated(target, text)) >>),
                                   JsArr(<< JsStr(Translated(target, text)) >>),
                                   JsArr(<< JsStr(Translated(target, text)) >>),
                                   JsArr(<< JsStr(Translated(target, text)) >>) >>) >>))
         [] answer = "status"     -> [kind |-> "response", status |-> 429, body |-> Null]
         [] answer = "network"    -> [kind |-> "error", status |-> 0, body |-> Null]
         [] answer = "unreadable" -> ok(Unparsable)
         [] answer = "null"       -> ok(Null)
         [] answer = "object"     -> ok(JsObj([error |-> JsStr(s_error)]))
         [] answer = "noparts"    -> ok(JsArr(<< JsArr(<<>>) >>))
         [] answer = "flat"       -> ok(JsArr(<< JsArr(<< JsStr(text) >>) >>))
         [] answer = "blank"      -> ok(JsArr(<< JsArr(<< JsArr(<< JsStr(<<>>) >>),
                                                        JsArr(<<>>) >>) >>))

\* payload?.[0]
FirstOf(payload) ==
    IF IsArr(payload) /\ payload.a # <<>> THEN payload.a[1] ELSE Undefined

\* (part) => (Array.isArray(part) ? part[0] : ''), as join('') renders it:
\* undefined and null as the empty string
PartText(part) ==
    IF IsArr(part) /\ part.a # <<>> /\ ~IsNullish(part.a[1])
    THEN String(part.a[1]) ELSE <<>>

translateText_NoFallback(rawText, outcome) ==
    IF outcome.kind = "error" \/ ~IsOk(outcome.status) THEN rawText
    ELSE LET first == FirstOf(outcome.body)
         IN IF IsArr(first)
            THEN join([i \in DOMAIN first.a |-> PartText(first.a[i])], <<>>)
            ELSE rawText

\* translateText from the fetch on: the raw text for a rejected fetch, a
\* status that is not ok and a body response.json() rejects; else the parts
\* of payload[0] joined, or the raw text when that is no array or the
\* joined text is empty
translateText(rawText, outcome) ==
    IF outcome.kind = "error" THEN rawText
    ELSE IF ~IsOk(outcome.status) THEN rawText
    ELSE IF outcome.body = Unparsable THEN rawText
    ELSE LET first == FirstOf(outcome.body)
             translated == IF IsArr(first)
                           THEN join([i \in DOMAIN first.a |-> PartText(first.a[i])], <<>>)
                           ELSE rawText
         IN IF translated = <<>> THEN rawText ELSE translated

\* the fetch of one translateText call settles with the answer of the
\* service; the value returned is cached under the call's key
TranslationResponds(id, call, answer) ==
    /\ PanelReady
    /\ id \in DOMAIN tasks
    /\ call \in Answerable(tasks[id])
    /\ answer \in {"translated", "parts", "long"} \/ Failures < MaxTranslateFailures
    /\ LET task  == tasks[id]
           text  == task.calls[call]
           key   == cacheKey(task.target, text)
           value == translateText(text, ServiceOutcome(answer, task.target, text))
           next  == [task EXCEPT !.got[call] = value]
       IN /\ translationCache' = (key :> value) @@ translationCache
          /\ tasks' = [tasks EXCEPT ![id] = next]
          /\ running' = NextRunning(id, next)
    /\ UNCHANGED <<program, normalizerVars, pageVars, speechVars, isOn, selectedLanguage, lastAnalysisData,
                   renderSequence, resultDiv, labels>>

\* languageSelect 'change' listener up to its first suspension
LanguageChange(code) ==
    /\ PanelReady
    /\ Started("language") < MaxLanguageChanges
    /\ code # selectedLanguage
    /\ selectedLanguage' = code
    /\ LET id   == Len(tasks) + 1
           next == AwaitIn(NewTask("language", <<>>), <<T_DisplayLanguage>>, "label1",
                           TargetOf(code))
       IN /\ tasks' = Append(tasks, next)
          /\ running' = NextRunning(id, next)
    /\ UNCHANGED <<program, normalizerVars, pageVars, speechVars, isOn, lastAnalysisData, renderSequence,
                   resultDiv, translationCache, labels>>

\* updateLanguageLabel: the language label is written, 'Speak summary' asked
LabelLanguage(id) ==
    /\ program = "panel" /\ running = id
    /\ tasks[id].pc = "label1"
    /\ labels' = [labels EXCEPT !.language = tasks[id].got[1]]
    /\ LET next == Await(tasks[id], <<T_SpeakSummary>>, "label2") IN
       /\ tasks' = [tasks EXCEPT ![id] = next]
       /\ running' = NextRunning(id, next)
    /\ UNCHANGED <<program, normalizerVars, pageVars, speechVars, isOn, selectedLanguage, lastAnalysisData,
                   renderSequence, resultDiv, translationCache>>

\* updateLanguageLabel: the speak button is labelled, then
\* updateThemeButtonText asks for 'Toggle theme'
LabelSpeak(id) ==
    /\ program = "panel" /\ running = id
    /\ tasks[id].pc = "label2"
    /\ labels' = [labels EXCEPT !.speak = tasks[id].got[1]]
    /\ LET next == Await(tasks[id], <<T_ToggleTheme>>, "label3") IN
       /\ tasks' = [tasks EXCEPT ![id] = next]
       /\ running' = NextRunning(id, next)
    /\ UNCHANGED <<program, normalizerVars, pageVars, speechVars, isOn, selectedLanguage, lastAnalysisData,
                   renderSequence, resultDiv, translationCache>>

\* updateThemeButtonText writes the tooltip; back in the listener,
\* if (lastAnalysisData) renderAnalysis(lastAnalysisData)
LabelTheme(id) ==
    /\ program = "panel" /\ running = id
    /\ tasks[id].pc = "label3"
    /\ labels' = [labels EXCEPT !.theme = tasks[id].got[1]]
    /\ IF IsFalsy(lastAnalysisData)
       THEN /\ tasks' = [tasks EXCEPT ![id] = Finish(@, "labelled")]
            /\ running' = 0
            /\ UNCHANGED <<lastAnalysisData, renderSequence>>
       ELSE renderAnalysis(id, tasks[id], lastAnalysisData)
    /\ UNCHANGED <<program, normalizerVars, pageVars, speechVars, isOn, selectedLanguage, resultDiv,
                   translationCache>>

\* themeBtn 'click' listener: applyTheme, then updateThemeButtonText up to
\* its await (the colour scheme itself is not part of the model)
ThemeClick ==
    /\ PanelReady
    /\ Started("theme") < MaxThemeClicks
    /\ LET id   == Len(tasks) + 1
           next == Await(NewTask("theme", <<>>), <<T_ToggleTheme>>, "tooltip")
       IN /\ tasks' = Append(tasks, next)
          /\ running' = NextRunning(id, next)
    /\ UNCHANGED <<program, normalizerVars, pageVars, speechVars, isOn, selectedLanguage, lastAnalysisData,
                   renderSequence, resultDiv, translationCache, labels>>

\* updateThemeButtonText after its await: the tooltip of the theme button
ThemeTooltip(id) ==
    /\ program = "panel" /\ running = id
    /\ tasks[id].pc = "tooltip"
    /\ labels' = [labels EXCEPT !.theme = tasks[id].got[1]]
    /\ tasks' = [tasks EXCEPT ![id] = Finish(@, "labelled")]
    /\ running' = 0
    /\ UNCHANGED <<program, normalizerVars, pageVars, speechVars, isOn, selectedLanguage, lastAnalysisData,
                   renderSequence, resultDiv, translationCache>>

\* toggleBtn 'click' listener
Toggle ==
    /\ PanelReady
    /\ isOn' = ~isOn
    /\ UNCHANGED <<program, normalizerVars, pageVars, speechVars, selectedLanguage, lastAnalysisData,
                   renderSequence, resultDiv, translationCache, labels, tasks, running>>

NextPanel ==
    \/ \E text \in PayloadTexts : AnalyzeText(text)
    \/ \E code \in Languages : LanguageChange(code)
    \/ Toggle
    \/ \E id \in DOMAIN tasks :
          \/ ShowNoText(id)
          \/ ShowAnalyzing(id)
          \/ ShowBackendDown(id)
          \/ ApplyRender(id)
          \/ LabelLanguage(id)
          \/ LabelSpeak(id)
          \/ LabelTheme(id)
          \/ \E outcome \in ClassifierOutcomes : ClassifierResponds(id, outcome)
          \/ \E call \in DOMAIN tasks[id].got, answer \in TranslateAnswers :
                TranslationResponds(id, call, answer)

\* the handlers that only translate: the language selector and the theme
\* button, with the translation service answering
NextTranslate ==
    \/ \E code \in Languages : LanguageChange(code)
    \/ ThemeClick
    \/ \E id \in DOMAIN tasks :
          \/ LabelLanguage(id)
          \/ LabelSpeak(id)
          \/ LabelTheme(id)
          \/ ThemeTooltip(id)
          \/ \E call \in DOMAIN tasks[id].got, answer \in TranslateAnswers :
                TranslationResponds(id, call, answer)
-----------------------------------------------------------------------------
(* Speech output of the desktop panel                                      *)

MaxSpeakClicks == 2

T_NoAnalysis ==
    <<"N","o"," ","a","n","a","l","y","s","i","s"," ","a","v","a","i","l","a","b","l","e"," ","y","e","t","."," ","P","l","e","a","s","e"," ","s","c","a","n"," ","t","e","x","t"," ","f","i","r","s","t",".">>
S_ThreatLevelIs == <<"T","h","r","e","a","t"," ","l","e","v","e","l"," ","i","s"," ">>
S_Dot == <<".">>
S_Space == <<" ">>
S_Suspicious == <<"M","e","s","s","a","g","e"," ","i","s"," ","s","u","s","p","i","c","i","o","u","s",","," ","p","r","o","c","e","e","d"," ","w","i","t","h"," ","c","a","u","t","i","o","n",".">>
S_Safe == <<"M","e","s","s","a","g","e"," ","i","s"," ","s","a","f","e",".">>
S_Risky == <<"M","e","s","s","a","g","e"," ","i","s"," ","r","i","s","k","y",","," ","i","g","n","o","r","e"," ","i","t",".">>

buildEasySummaryEnglish_UnknownCautious(data) ==
    LET rawLevel == inferThreatLevel(data)
        spokenLevel == IF rawLevel \in {L_LOW, L_SAFE} THEN L_LOW
                       ELSE IF rawLevel \in {L_MEDIUM, L_SUSPICIOUS, L_UNKNOWN} THEN L_MEDIUM
                       ELSE L_HIGH
        guidance == IF spokenLevel = L_LOW THEN S_Safe
                    ELSE IF spokenLevel = L_HIGH THEN S_Risky
                    ELSE S_Suspicious
    IN join(<< S_ThreatLevelIs \o spokenLevel \o S_Dot, guidance >>, S_Space)

\* buildEasySummaryEnglish: the level spoken as LOW, MEDIUM or HIGH and one
\* sentence of guidance
buildEasySummaryEnglish(data) ==
    LET rawLevel == inferThreatLevel(data)
        spokenLevel == IF rawLevel \in {L_LOW, L_SAFE} THEN L_LOW
                       ELSE IF rawLevel \in {L_MEDIUM, L_SUSPICIOUS} THEN L_MEDIUM
                       ELSE L_HIGH
        guidance == IF spokenLevel = L_LOW THEN S_Safe
                    ELSE IF spokenLevel = L_HIGH THEN S_Risky
                    ELSE S_Suspicious
    IN join(<< S_ThreatLevelIs \o spokenLevel \o S_Dot, guidance >>, S_Space)

v_enIN == <<"e","n","-","I","N">>
v_enUS == <<"e","n","-","U","S">>
v_hiIN == <<"h","i","-","I","N">>
v_enGB == <<"e","n","-","G","B">>
v_hi == <<"h","i">>
v_en_in == <<"e","n","-","i","n">>

TTS_LANG_MAP == [ en |-> v_enIN, hi |-> v_hiIN, brx |-> v_hiIN ]

\* TTS_LANG_MAP[selectedLanguage] || 'en-IN'
getSpeechLang ==
    IF selectedLanguage \in DOMAIN TTS_LANG_MAP THEN TTS_LANG_MAP[selectedLanguage]
    ELSE v_enIN

\* the voice lists a machine may have installed: none, English only, English
\* and Hindi of the locales asked for, English and Hindi of other locales
VoiceLists ==
    { <<>>,
      << [lang |-> v_enUS, default |-> TRUE] >>,
      << [lang |-> v_enIN, default |-> TRUE], [lang |-> v_hiIN, default |-> FALSE] >>,
      << [lang |-> v_enGB, default |-> FALSE], [lang |-> v_hi, default |-> FALSE] >> }

\* langCode.split('-')[0]
BaseOf(langCode) ==
    LET dashes == { i \in DOMAIN langCode : langCode[i] = "-" }
    IN IF dashes = {} THEN langCode
       ELSE SubSeq(langCode, 1, (CHOOSE i \in dashes : \A j \in dashes : i <= j) - 1)

\* String.prototype.startsWith
startsWith(text, prefix) ==
    Len(prefix) <= Len(text) /\ SubSeq(text, 1, Len(prefix)) = prefix

\* the first index of the set, 0 for none: Array.prototype.find
LowestIndex(hits) == IF hits = {} THEN 0 ELSE CHOOSE i \in hits : \A j \in hits : i <= j

ExactVoices(voices, langCode) ==
    { i \in DOMAIN voices : toLowerCase(voices[i].lang) = toLowerCase(langCode) }

BaseVoices(voices, langCode) ==
    { i \in DOMAIN voices :
        startsWith(toLowerCase(voices[i].lang), BaseOf(toLowerCase(langCode))) }

hasVoiceForLang_ExactOnly(voices, langCode) ==
    voices # <<>> /\ ExactVoices(voices, langCode) # {}

\* hasVoiceForLang: a voice of the language, or of its base language
hasVoiceForLang(voices, langCode) ==
    /\ voices # <<>>
    /\ ExactVoices(voices, langCode) # {} \/ BaseVoices(voices, langCode) # {}

\* pickBestVoice: the index of the voice chosen, 0 for null
pickBestVoice(voices, langCode) ==
    IF voices = <<>> THEN 0
    ELSE IF ExactVoices(voices, langCode) # {} THEN LowestIndex(ExactVoices(voices, langCode))
    ELSE IF BaseVoices(voices, langCode) # {} THEN LowestIndex(BaseVoices(voices, langCode))
    ELSE IF ExactVoices(voices, v_en_in) # {} THEN LowestIndex(ExactVoices(voices, v_en_in))
    ELSE IF { i \in DOMAIN voices : voices[i].default } # {}
    THEN LowestIndex({ i \in DOMAIN voices : voices[i].default })
    ELSE 1

\* the utterance speakWithSystemVoice builds
Utterance(text) ==
    [ text |-> text, lang |-> getSpeechLang,
      voice |-> pickBestVoice(cachedVoices, getSpeechLang) ]

\* synth.cancel(); synth.speak(utterance): the queue holds the new utterance
\* only. speechSynthesis and SpeechSynthesisUtterance exist in the panel's
\* runtime
speakWithSystemVoice(text) == << Utterance(text) >>

\* audioPlayer.pause(): a playing element falls silent, one whose play() is
\* still pending has that promise rejected
Paused(elements, k) ==
    IF k = 0 THEN elements
    ELSE [ elements EXCEPT ![k].state =
              IF @ = "playing" THEN "paused"
              ELSE IF @ = "loading" THEN "aborted" ELSE @ ]

\* new Audio(url) of tryRemoteTts for the text, awaited by the invocation id
RemoteAudio(text, targetLang, id) ==
    [ text |-> slice0(text, 190), lang |-> targetLang, state |-> "loading", by |-> id ]

InitSpeechVars ==
    /\ synth = <<>>
    /\ audios = <<>>
    /\ audioPlayer = 0

InitPanelVars ==
    /\ InitPanelCore
    /\ cachedVoices = <<>>
    /\ InitSpeechVars

\* speakBtn 'click' listener: speakLatestSummary up to its await
SpeakClick ==
    /\ PanelReady
    /\ Started("speak") < MaxSpeakClicks
    /\ LET id   == Len(tasks) + 1
           next == IF IsFalsy(lastAnalysisData)
                   THEN Await(NewTask("speak", <<>>), <<T_NoAnalysis>>, "sayNoData")
                   ELSE Await(NewTask("speak", <<>>),
                              <<buildEasySummaryEnglish(lastAnalysisData)>>, "saySummary")
       IN /\ tasks' = Append(tasks, next)
          /\ running' = NextRunning(id, next)
    /\ UNCHANGED <<program, normalizerVars, pageVars, speechVars, isOn, selectedLanguage,
                   lastAnalysisData, renderSequence, resultDiv, translationCache, labels>>

\* speakText(text), run by the invocation id: nothing for a blank text, the
\* on-device voice when there is one for the language, else remote audio for
\* a target other than English, up to the await of play(), else the
\* on-device default voice
speakText(id, text) ==
    \E payload \in { trim(text) } :
        IF payload = <<>>
        THEN /\ tasks' = [tasks EXCEPT ![id] = Finish(@, "silent")]
             /\ running' = 0
             /\ UNCHANGED <<synth, audios, audioPlayer>>
        ELSE IF hasVoiceForLang(cachedVoices, getSpeechLang) \/ getTranslateTarget = "en"
        THEN /\ synth' = speakWithSystemVoice(payload)
             /\ tasks' = [tasks EXCEPT ![id] = Finish(@, "spoken")]
             /\ running' = 0
             /\ UNCHANGED <<audios, audioPlayer>>
        ELSE /\ audios' = Append(Paused(audios, audioPlayer),
                                 RemoteAudio(payload, getTranslateTarget, id))
             /\ audioPlayer' = Len(audios) + 1
             /\ tasks' = [tasks EXCEPT ![id].pc = "play", ![id].payload = payload]
             /\ running' = 0
             /\ UNCHANGED synth

\* speakLatestSummary after its await: without an analysis the translated
\* notice is shown and spoken, with one the translated summary is spoken
SpeakSay(id) ==
    /\ program = "panel" /\ running = id
    /\ tasks[id].pc \in {"sayNoData", "saySummary"}
    /\ IF tasks[id].pc = "sayNoData"
       THEN resultDiv' = ShowText(tasks[id].got[1], id)
       ELSE UNCHANGED resultDiv
    /\ speakText(id, tasks[id].got[1])
    /\ UNCHANGED <<program, normalizerVars, pageVars, cachedVoices, isOn, selectedLanguage,
                   lastAnalysisData, renderSequence, translationCache, labels>>

\* the remote audio starts to play: play() resolves, tryRemoteTts returns
\* true and speakText returns
AudioPlays(k) ==
    /\ PanelReady
    /\ audios[k].state = "loading"
    /\ audios' = [audios EXCEPT ![k].state = "playing"]
    /\ tasks' = [tasks EXCEPT ![audios[k].by] = Finish(@, "spoken")]
    /\ UNCHANGED <<program, normalizerVars, pageVars, cachedVoices, synth, audioPlayer, isOn,
                   selectedLanguage, lastAnalysisData, renderSequence, resultDiv,
                   translationCache, labels, running>>

\* play() rejects, because the audio cannot be fetched or played or because
\* a later tryRemoteTts paused it first: tryRemoteTts returns false and
\* speakText falls back to speakWithSystemVoice
AudioRejects(k) ==
    /\ PanelReady
    /\ audios[k].state \in {"loading", "aborted"}
    /\ tasks[audios[k].by].pc = "play"
    /\ audios' = [audios EXCEPT ![k].state = IF @ = "loading" THEN "failed" ELSE @]
    /\ synth' = speakWithSystemVoice(tasks[audios[k].by].payload)
    /\ tasks' = [tasks EXCEPT ![audios[k].by] = Finish(@, "spoken")]
    /\ UNCHANGED <<program, normalizerVars, pageVars, cachedVoices, audioPlayer, isOn,
                   selectedLanguage, lastAnalysisData, renderSequence, resultDiv,
                   translationCache, labels, running>>

\* a remote audio plays to its end
AudioEnds(k) ==
    /\ program = "panel"
    /\ audios[k].state = "playing"
    /\ audios' = [audios EXCEPT ![k].state = "ended"]
    /\ UNCHANGED <<program, normalizerVars, pageVars, cachedVoices, synth, audioPlayer, isOn,
                   selectedLanguage, lastAnalysisData, renderSequence, resultDiv,
                   translationCache, labels, tasks, running>>

\* the on-device voice finishes its utterance
UtteranceEnds ==
    /\ program = "panel"
    /\ synth # <<>>
    /\ synth' = Tail(synth)
    /\ UNCHANGED <<program, normalizerVars, pageVars, cachedVoices, audios, audioPlayer, isOn,
                   selectedLanguage, lastAnalysisData, renderSequence, resultDiv,
                   translationCache, labels, tasks, running>>

\* the speech outputs that can be heard: the utterance the synthesizer is
\* speaking and every audio element that is playing
AudibleOutputs ==
    (IF synth # <<>> THEN 1 ELSE 0)
    + Cardinality({ k \in DOMAIN audios : audios[k].state = "playing" })

\* the answers of the translation service to the calls of an invocation: a
\* long translation too for the text the speak button asks for
SpeechAnswers(task) ==
    IF task.kind = "speak" THEN TranslateAnswers \cup {"long"} ELSE TranslateAnswers

\* the panel's speech at work: the speak button and the language selector,
\* the translation service and the two audio channels
NextSpeech ==
    \/ \E code \in Languages : LanguageChange(code)
    \/ SpeakClick
    \/ UtteranceEnds
    \/ \E id \in DOMAIN tasks :
          \/ LabelLanguage(id)
          \/ LabelSpeak(id)
          \/ LabelTheme(id)
          \/ SpeakSay(id)
          \/ \E call \in DOMAIN tasks[id].got, answer \in SpeechAnswers(tasks[id]) :
                TranslationResponds(id, call, answer)
    \/ \E k \in DOMAIN audios :
          \/ AudioPlays(k)
          \/ AudioRejects(k)
          \/ AudioEnds(k)

s_low == <<"l","o","w">>
s_Medium == <<"M","e","d","i","u","m">>
s_suspicious == <<"s","u","s","p","i","c","i","o","u","s">>

\* classifier answers of every level: named in severity, risk_level or
\* result in some case, padded, unheard of, derived from either score, absent
SummaryResponses ==
    { JsObj([Blank EXCEPT !["severity"] = JsStr(v)]) :
        v \in {s_low, s_Medium, s_high, s_padded, s_phishy} }
    \cup { JsObj([Blank EXCEPT !["risk_level"] = JsStr(v)]) :
             v \in {s_Safe, s_suspicious, L_CRITICAL, L_UNKNOWN} }
    \cup { JsObj([Blank EXCEPT !["result"] = JsStr(s_Safe), !["severity"] = JsStr(s_blank)]) }
    \cup { JsObj([Blank EXCEPT !["overall_risk"] = JsNum(n)]) :
             n \in {2999, 5999, 8499, 8500} }
    \cup { JsObj([Blank EXCEPT !["risk_score"] = JsNum(n)]) : n \in {30, 55, 80, 81} }
    \cup { JsObj(Blank) }

SummaryOutcomes ==
    { [kind |-> "response", status |-> 200, body |-> d] : d \in SummaryResponses }

\* the spoken summary at work: one analysis of any level and the speak
\* button, in the initial display language
NextSummary ==
    \/ \E text \in PayloadTexts : AnalyzeText(text)
    \/ SpeakClick
    \/ UtteranceEnds
    \/ \E id \in DOMAIN tasks :
          \/ ShowNoText(id)
          \/ ShowAnalyzing(id)
          \/ ApplyRender(id)
          \/ SpeakSay(id)
          \/ \E outcome \in SummaryOutcomes : ClassifierResponds(id, outcome)

\* the panel with analyze-text events that overlap and the speak button
NextLatest ==
    \/ \E text \in PayloadTexts : AnalyzeTextOverlapping(text)
    \/ SpeakClick
    \/ UtteranceEnds
    \/ \E id \in DOMAIN tasks :
          \/ ShowNoText(id)
          \/ ShowAnalyzing(id)
          \/ \E outcome \in ClassifierOutcomes : ClassifierResponds(id, outcome)
          \/ ShowBackendDown(id)
          \/ ApplyRender(id)
          \/ SpeakSay(id)
-----------------------------------------------------------------------------
(* Page scripts (src/extension/content.js, src/extension/content_script.js) *)

\* bounds of the page model
MaxScans == 2
MaxStops == 1

\* String.prototype.startsWith(phrase, i - 1), i counted from 1
StartsAt(text, phrase, i) ==
    /\ i + Len(phrase) - 1 <= Len(text)
    /\ \A k \in 1..Len(phrase) : text[i + k - 1] = phrase[k]

\* String.prototype.includes
includes(text, phrase) == \E i \in 1..(Len(text) + 1) : StartsAt(text, phrase, i)

\* String.prototype.indexOf: the first index counted from 0, or -1
indexOf(text, phrase) ==
    LET hits == { i \in 1..(Len(text) + 1) : StartsAt(text, phrase, i) }
    IN IF hits = {} THEN 0 - 1
       ELSE (CHOOSE i \in hits : \A j \in hits : i <= j) - 1

\* the alternatives of SUSPICIOUS_BLOCK_HINTS that are plain words; the
\* alternatives in Devanagari, Bengali and Tamil script cannot match the
\* Latin-script texts of this model
HintWords ==
    { <<"o","t","p">>,
      <<"p","a","s","s","w","o","r","d">>,
      <<"k","y","c">>,
      <<"c","v","v">>,
      <<"p","i","n">>,
      <<"d","e","b","i","t"," ","c","a","r","d">>,
      <<"c","r","e","d","i","t"," ","c","a","r","d">>,
      <<"v","e","r","i","f","y">>,
      <<"c","l","i","c","k"," ","h","e","r","e">>,
      <<"s","b","i">>,
      <<"r","b","i">>,
      <<"a","a","d","h","a","r">>,
      <<"a","a","d","h","a","a","r">>,
      <<"p","a","n">>,
      <<"u","p","i">> }

S_account == <<"a","c","c","o","u","n","t">>
AccountActions ==
    { <<"b","l","o","c","k","e","d">>,
      <<"b","l","o","c","k">>,
      <<"s","u","s","p","e","n","d">>,
      <<"f","r","e","e","z","e">> }

\* the first index from i on that holds no whitespace
RECURSIVE SkipSpaces(_, _)
SkipSpaces(text, i) ==
    IF i <= Len(text) /\ IsSpace(text[i]) THEN SkipSpaces(text, i + 1) ELSE i

\* account\s*(blocked|block|suspend|freeze)
MatchesAccount(lower) ==
    \E i \in 1..Len(lower) :
        /\ StartsAt(lower, S_account, i)
        /\ \E action \in AccountActions :
              StartsAt(lower, action, SkipSpaces(lower, i + Len(S_account)))

\* SUSPICIOUS_BLOCK_HINTS.test(text): case-insensitive, unanchored
SUSPICIOUS_BLOCK_HINTS(text) ==
    LET lower == toLowerCase(text)
    IN \/ \E word \in HintWords : includes(lower, word)
       \/ MatchesAccount(lower)

\* ---- the document: its text nodes in document order ----
\* tag is the tag of the enclosing element, span the highlight span the
\* node is wrapped in, 0 when it is in none

TextNode(id, tag, text) == [ id |-> id, tag |-> tag, text |-> text, span |-> 0 ]

ParentTag(node) == IF node.span # 0 THEN "SPAN" ELSE node.tag

MinBlockLength == 20

\* acceptNode of the tree walker
acceptNode(node) ==
    /\ ParentTag(node) \notin {"SCRIPT", "STYLE", "NOSCRIPT"}
    /\ Len(trim(node.text)) >= MinBlockLength

AsBlock(node) == [ node |-> node.id, text |-> trim(node.text) ]

extractTextBlocks(doc) ==
    LET accepted == Filter(doc, acceptNode)
    IN [i \in DOMAIN accepted |-> AsBlock(accepted[i])]

\* ---- block budget (scanPage lines 202-220) ----
MAX_BLOCKS == 60
MAX_LENGTH == 4000

IsHinted(block) == SUSPICIOUS_BLOCK_HINTS(block.text)
IsNotHinted(block) == ~SUSPICIOUS_BLOCK_HINTS(block.text)

limitedBlocks_Unprioritized(blocks) == slice0(blocks, MAX_BLOCKS)

\* [...suspiciousBlocks, ...remainingBlocks].slice(0, MAX_BLOCKS)
limitedBlocks(blocks) ==
    slice0(Filter(blocks, IsHinted) \o Filter(blocks, IsNotHinted), MAX_BLOCKS)

BlockTexts(blocks) == [i \in DOMAIN blocks |-> blocks[i].text]

S_BlankLine == <<"\n", "\n">>

fullText_Untrimmed(limited) == join(BlockTexts(limited), S_BlankLine)

\* limitedBlocks.map(b => b.text).join('\n\n'), sliced to MAX_LENGTH
fullText(limited) ==
    LET joined == join(BlockTexts(limited), S_BlankLine)
    IN IF Len(joined) > MAX_LENGTH THEN slice0(joined, MAX_LENGTH) ELSE joined

\* ---- Fallback Matcher (useFallbackDetection) ----
\* the explanations are Hindi sentences in the source; the model carries a
\* transliterated stand-in for each, which no operation looks into
dangerousPatterns ==
    << [ phrase |-> <<"p","a","s","s","w","o","r","d"," ","s","h","a","r","e"," ","k","a","r","o">>,
         risk |-> 90,
         explanation |-> <<"a","s","l","i"," ","b","a","n","k","s"," ","k","a","b","h","i"," ","b","h","i"," ","p","a","s","s","w","o","r","d"," ","n","a","h","i","n"," ","m","a","a","n","g","t","e">> ],
       [ phrase |-> <<"o","t","p"," ","b","a","t","a","o">>,
         risk |-> 95,
         explanation |-> <<"O","T","P"," ","k","e","v","a","l"," ","a","a","p"," ","k","e"," ","l","i","y","e"," ","h","a","i">> ],
       [ phrase |-> <<"t","u","r","a","n","t"," ","v","e","r","i","f","y">>,
         risk |-> 75,
         explanation |-> <<"U","r","g","e","n","c","y"," ","e","k"," ","c","o","m","m","o","n"," ","p","h","i","s","h","i","n","g"," ","t","a","c","t","i","c"," ","h","a","i">> ],
       [ phrase |-> <<"a","c","c","o","u","n","t"," ","b","l","o","c","k">>,
         risk |-> 80,
         explanation |-> <<"d","a","r","a","a","n","e"," ","k","i"," ","k","o","s","h","i","s","h"," ","h","a","i">> ],
       [ phrase |-> <<"c","v","v"," ","e","n","t","e","r">>,
         risk |-> 95,
         explanation |-> <<"C","V","V"," ","k","a","b","h","i"," ","k","i","s","i"," ","k","o"," ","m","a","t"," ","d","o">> ],
       [ phrase |-> <<"b","a","n","k"," ","d","e","t","a","i","l","s"," ","b","h","e","j","o">>,
         risk |-> 90,
         explanation |-> <<"B","a","n","k"," ","d","e","t","a","i","l","s"," ","m","e","s","s","a","g","e"," ","m","e","i","n"," ","m","a","t"," ","b","h","e","j","o">> ],
       [ phrase |-> <<"l","o","t","t","e","r","y"," ","j","e","e","t">>,
         risk |-> 85,
         explanation |-> <<"F","a","k","e"," ","l","o","t","t","e","r","y"," ","s","c","a","m"," ","h","a","i">> ],
       [ phrase |-> <<"p","o","l","i","c","e"," ","d","e","p","a","r","t","m","e","n","t">>,
         risk |-> 70,
         explanation |-> <<"P","o","l","i","c","e"," ","m","e","s","s","a","g","e"," ","s","e"," ","p","a","y","m","e","n","t"," ","n","a","h","i","n"," ","m","a","a","n","g","t","i">> ] >>

AsThreat(pattern) ==
    JsObj([ phrase |-> JsStr(pattern.phrase), risk |-> JsNum(Num(pattern.risk)),
            explanation |-> JsStr(pattern.explanation) ])

RECURSIVE MathMax(_)
\* Math.max over a non-empty sequence of threats' risks
MathMax(threats) ==
    IF Len(threats) = 1 THEN threats[1].risk
    ELSE Max(threats[1].risk, MathMax(Tail(threats)))

\* the matcher comparing the text as it is, upper case and all
useFallbackDetection_CaseSensitive(text) ==
    LET Hit(pattern) == includes(text, pattern.phrase)
        threats == Filter(dangerousPatterns, Hit)
    IN JsObj([ overall_risk |-> IF Len(threats) > 0
                                THEN JsNum(Num(MathMax(threats))) ELSE JsNum(0),
               threats |-> JsArr([i \in DOMAIN threats |-> AsThreat(threats[i])]) ])

useFallbackDetection(text) ==
    LET lowerText == toLowerCase(text)
        Hit(pattern) == includes(lowerText, pattern.phrase)
        threats == Filter(dangerousPatterns, Hit)
    IN JsObj([ overall_risk |-> IF Len(threats) > 0
                                THEN JsNum(Num(MathMax(threats))) ELSE JsNum(0),
               threats |-> JsArr([i \in DOMAIN threats |-> AsThreat(threats[i])]) ])

-----------------------------------------------------------------------------
(* The page scripts as state machines                                      *)

\* ---- DOM operations of content.js ----

\* the nodes of the page have ids above 0, the k-th node the script creates
\* has the id -k
FreshId(k) == 0 - k

\* position of the text node with the id in the document
NodeIndex(doc, id) == CHOOSE i \in DOMAIN doc : doc[i].id = id

S_SuspiciousContent == <<"S","u","s","p","i","c","i","o","u","s"," ","c","o","n","t","e","n","t"," ","d","e","t","e","c","t","e","d",".">>

\* whether the text node with the id is in the document
IsConnected(st, id) == \E i \in DOMAIN st.document : st.document[i].id = id

\* range.surroundContents(span) on the match at index in the i-th of nodes:
\* the text before the match stays in the node, the match moves into the
\* span and the text after it into a new node
surroundContents(nodes, i, index, phrase, n) ==
    LET node  == nodes[i]
        text  == node.text
        match == [ node EXCEPT !.id = FreshId(n + 2),
                               !.text = SubSeq(text, index + 1, index + Len(phrase)),
                               !.span = n + 1 ]
        after == [ node EXCEPT !.id = FreshId(n + 3),
                               !.text = SubSeq(text, index + Len(phrase) + 1, Len(text)) ]
    IN SubSeq(nodes, 1, i - 1)
       \o << [node EXCEPT !.text = SubSeq(text, 1, index)], match, after >>
       \o SubSeq(nodes, i + 1, Len(nodes))

highlightText_Unregistered(st, textNode, phrase, risk, explanation) ==
    LET inDoc == IsConnected(st, textNode)
        nodes == IF inDoc THEN st.document ELSE st.detached
        i     == NodeIndex(nodes, textNode)
        text  == nodes[i].text
        index == indexOf(toLowerCase(text), toLowerCase(phrase))
        split == surroundContents(nodes, i, index, phrase, st.created)
    IN IF index = 0 - 1 THEN st
       ELSE IF inDoc
       THEN [ st EXCEPT !.document = split, !.created = @ + 3 ]
       ELSE IF nodes[i].orphan
       THEN [ st EXCEPT !.detached[i].text =
                           SubSeq(text, 1, index)
                           \o SubSeq(text, index + Len(phrase) + 1, Len(text)) ]
       ELSE [ st EXCEPT !.detached = split, !.created = @ + 3 ]

\* highlightText: wrap the first occurrence of phrase in the text node in a
\* new span and register the span. The node may have left the document: if
\* it left with its parent element the span is made in the removed subtree;
\* if it has no parent, surroundContents extracts the match from the node
\* and then throws, which the catch block logs
highlightText(st, textNode, phrase, risk, explanation) ==
    LET inDoc == IsConnected(st, textNode)
        nodes == IF inDoc THEN st.document ELSE st.detached
        i     == NodeIndex(nodes, textNode)
        text  == nodes[i].text
        index == indexOf(toLowerCase(text), toLowerCase(phrase))
        split == surroundContents(nodes, i, index, phrase, st.created)
        entry == [ id |-> st.created + 1, risk |-> risk,
                   explanation |-> explanation, phrase |-> phrase ]
    IN IF index = 0 - 1 THEN st
       ELSE IF inDoc
       THEN [ st EXCEPT !.document = split,
                        !.highlights = Append(@, entry),
                        !.created = @ + 3 ]
       ELSE IF nodes[i].orphan
       THEN [ st EXCEPT !.detached[i].text =
                           SubSeq(text, 1, index)
                           \o SubSeq(text, index + Len(phrase) + 1, Len(text)) ]
       ELSE [ st EXCEPT !.detached = split,
                        !.highlights = Append(@, entry),
                        !.created = @ + 3 ]

\* threat.phrase.toLowerCase() raises a TypeError
PhraseThrows(threat) == ~(IsObj(threat) /\ IsStr(Get(threat, "phrase")))

RECURSIVE HighlightInBlocks(_, _, _, _)
\* limitedBlocks.forEach(block => ...) for one threat, from block k on; the
\* test reads the text recorded at extraction, highlightText the live node
HighlightInBlocks(st, threat, blocks, k) ==
    IF k > Len(blocks) THEN st
    ELSE LET phrase == Get(threat, "phrase").s
             next == IF includes(toLowerCase(blocks[k].text), toLowerCase(phrase))
                     THEN highlightText(st, blocks[k].node, phrase,
                                        Get(threat, "risk"),
                                        Or(Get(threat, "explanation"),
                                           JsStr(S_SuspiciousContent)))
                     ELSE st
         IN HighlightInBlocks(next, threat, blocks, k + 1)

RECURSIVE HighlightThreats(_, _, _, _)
\* result.threats.forEach(threat => ...), from threat k on; a TypeError ends
\* the loop and leaves the highlights made so far
HighlightThreats(st, threats, blocks, k) ==
    IF k > Len(threats) THEN st
    ELSE IF PhraseThrows(threats[k]) THEN [st EXCEPT !.threw = TRUE]
    ELSE HighlightThreats(HighlightInBlocks(st, threats[k], blocks, 1),
                          threats, blocks, k + 1)

\* parent.replaceChild(document.createTextNode(span.textContent), span)
\* among nodes, for the span with the id
ReplaceSpan(nodes, id, n) ==
    [ i \in DOMAIN nodes |->
        IF nodes[i].span = id
        THEN [ nodes[i] EXCEPT !.id = FreshId(n + 1), !.span = 0 ]
        ELSE nodes[i] ]

RECURSIVE UnwrapSpans(_, _, _)
\* highlights.forEach(span => parent.replaceChild(createTextNode(...), span))
UnwrapSpans(st, spans, k) ==
    IF k > Len(spans) THEN st
    ELSE LET id == spans[k].id
             found == \E i \in DOMAIN st.document : st.document[i].span = id
             apart == \E i \in DOMAIN st.detached : st.detached[i].span = id
             next == IF found
                     THEN [ st EXCEPT !.document = ReplaceSpan(@, id, st.created),
                                      !.created = @ + 1 ]
                     ELSE IF apart
                     THEN [ st EXCEPT !.detached = ReplaceSpan(@, id, st.created),
                                      !.created = @ + 1 ]
                     ELSE st
         IN UnwrapSpans(next, spans, k + 1)

clearHighlights_KeepRegistry(st) == UnwrapSpans(st, st.highlights, 1)

\* clearHighlights: unwrap every registered span, empty the registry
clearHighlights(st) ==
    [ UnwrapSpans(st, st.highlights, 1) EXCEPT !.highlights = <<>> ]

PageState ==
    [ document |-> document, highlights |-> highlights, created |-> created,
      detached |-> detached, threw |-> FALSE ]

\* ---- extractVisibleText of content_script.js ----

MAX_VISIBLE == 4800

IsRendered(node) == node.tag \notin {"SCRIPT", "STYLE", "NOSCRIPT"}

\* document.body.innerText: the rendered text, one line per element
innerText(doc) ==
    LET rendered == Filter(doc, IsRendered)
    IN join([i \in DOMAIN rendered |-> rendered[i].text], <<"\n">>)

\* replace(/\s+/g, ' '): every run of white space becomes one space
CollapseWhitespace(text) ==
    LET StartsRun(i) == ~IsSpace(text[i]) \/ i = 1 \/ ~IsSpace(text[i - 1])
        kept == SelectSeq([i \in DOMAIN text |-> i], StartsRun)
    IN [k \in DOMAIN kept |->
           IF IsSpace(text[kept[k]]) THEN " " ELSE text[kept[k]]]

extractVisibleText(doc) ==
    slice0(trim(CollapseWhitespace(innerText(doc))), MAX_VISIBLE)

\* ---- scans ----

NewScan ==
    [ pc |-> "start", limitedBlocks |-> <<>>, fullText |-> <<>>,
      requests |-> <<>>, statuses |-> <<>>, error |-> <<>>, result |-> NotYet ]

\* fetch(API_URL, { ..., signal: AbortSignal.timeout(8000) })
PageRequest(path, text) == [ path |-> path, body |-> text, signal |-> "timeout" ]

\* the pages of the model
s_pleasant == <<"T","h","e"," ","w","e","a","t","h","e","r"," ","i","s"," ","p","l","e","a","s","a","n","t"," ","i","n"," ","P","u","n","e"," ","t","o","d","a","y",".">>
s_scam     == <<"D","e","a","r"," ","u","s","e","r",","," ","O","T","P"," ","b","a","t","a","o"," ","n","o","w"," ","o","r"," ","y","o","u","r"," ","A","c","c","o","u","n","t"," ","B","l","o","c","k"," ","h","o"," ","j","a","y","e","g","a">>
s_inline   == <<"v","a","r"," ","h","i","n","t"," ","="," ","'","o","t","p"," ","b","a","t","a","o","'",";"," ","/","*"," ","n","o","t"," ","p","a","g","e"," ","t","e","x","t"," ","*","/">>
s_short    == <<" "," ","o","t","p"," ","b","a","t","a","o"," ">>

Pages ==
    { <<>>,
      << TextNode(1, "SCRIPT", s_inline), TextNode(2, "P", s_short) >>,
      << TextNode(1, "P", s_pleasant), TextNode(2, "DIV", s_scam) >> }

\* pages for the block budget: every page of up to MaxSmallBlocks text
\* nodes drawn from the templates, and four long pages
MaxSmallBlocks == 3

s_company == <<"O","u","r"," ","c","o","m","p","a","n","y"," ","o","u","t","i","n","g"," ","i","s"," ","o","n"," ","S","a","t","u","r","d","a","y">>

Templates ==
    << [tag |-> "P", text |-> s_pleasant],
       [tag |-> "DIV", text |-> s_scam],
       [tag |-> "SCRIPT", text |-> s_inline],
       [tag |-> "P", text |-> s_short],
       [tag |-> "LI", text |-> s_company] >>

MakePage(choice) ==
    [i \in DOMAIN choice |->
        TextNode(i, Templates[choice[i]].tag, Templates[choice[i]].text)]

SmallPages ==
    { MakePage(choice) :
        choice \in UNION { [1..n -> DOMAIN Templates] : n \in 0..MaxSmallBlocks } }

s_Notice == <<"N","o","t","i","c","e"," ">>
s_hinted == <<":"," ","p","l","e","a","s","e"," ","V","E","R","I","F","Y"," ","y","o","u","r"," ","d","e","t","a","i","l","s"," ","w","i","t","h"," ","t","h","e"," ","b","r","a","n","c","h"," ","o","f","f","i","c","e"," ","b","e","f","o","r","e"," ","t","h","e"," ","e","n","d"," ","o","f"," ","t","h","e"," ","w","e","e","k">>
s_plain  == <<":"," ","t","h","e"," ","r","e","a","d","i","n","g"," ","r","o","o","m"," ","o","p","e","n","s"," ","a","t"," ","n","i","n","e"," ","a","n","d"," ","c","l","o","s","e","s"," ","a","t"," ","h","a","l","f"," ","p","a","s","t"," ","f","i","v","e"," ","o","n"," ","w","e","e","k","d","a","y","s">>
s_brief  == <<" ","i","s"," ","o","n"," ","t","h","e"," ","s","h","e","l","f"," ","n","o","w">>

LongText(i, hinted) == s_Notice \o Digits(i) \o (IF hinted THEN s_hinted ELSE s_plain)
BriefText(i) == s_Notice \o Digits(i) \o s_brief

LongPages ==
    { [i \in 1..100 |-> TextNode(i, "P", LongText(i, i % 10 = 0))],
      [i \in 1..61 |-> TextNode(i, "P", LongText(i, FALSE))],
      [i \in 1..70 |-> TextNode(i, "P", LongText(i, i > 5))],
      [i \in 1..60 |-> TextNode(i, "P", BriefText(i))] }

BudgetPages == SmallPages \cup LongPages

\* what the classifier may answer a page script with status 200
s_otp_batao == <<"O","T","P"," ","B","a","t","a","o">>
s_jayega    == <<"j","a","y","e","g","a">>

PageBodies ==
    { JsObj([ risk_score |-> JsNum(10) ]),
      JsObj([ overall_risk |-> JsNum(Num(88)),
              threats |-> JsArr(<< JsObj([ phrase |-> JsStr(s_otp_batao),
                                           risk |-> JsNum(Num(88)) ]),
                                   JsObj([ phrase |-> JsStr(s_jayega),
                                           risk |-> JsNum(Num(40)),
                                           explanation |-> JsStr(s_pleasant) ]) >>) ]),
      JsObj([ overall_risk |-> JsNum(Num(70)),
              threats |-> JsArr(<< JsObj([ phrase |-> JsStr(s_jayega) ]),
                                   JsObj([ risk |-> JsNum(Num(70)) ]) >>) ]),
      Null }

PageOutcomes ==
    { [kind |-> "response", status |-> 200, body |-> b] : b \in PageBodies }
    \cup { [kind |-> "response", status |-> 200, body |-> Unparsable] }
    \cup { [kind |-> "response", status |-> s, body |-> Null] : s \in {404, 500} }
    \cup { [kind |-> "error", status |-> 0, body |-> Null] }

TimedOut == [kind |-> "timeout", status |-> 0, body |-> Null]

\* fetch resolved with an ok status and response.json() parsed the body
Succeeded(outcome) ==
    /\ outcome.kind = "response"
    /\ IsOk(outcome.status)
    /\ outcome.body # Unparsable

S_ApiReturned == <<"A","P","I"," ","r","e","t","u","r","n","e","d"," ">>
S_FailedToFetch == <<"F","a","i","l","e","d"," ","t","o"," ","f","e","t","c","h">>
S_SignalTimedOut == <<"s","i","g","n","a","l"," ","t","i","m","e","d"," ","o","u","t">>
S_UnexpectedToken == <<"U","n","e","x","p","e","c","t","e","d"," ","t","o","k","e","n">>

\* error.message of what analyzeText throws; the texts of the browser's own
\* errors are Chrome's
ErrorMessage(outcome) ==
    IF outcome.kind = "timeout" THEN S_SignalTimedOut
    ELSE IF outcome.kind = "error" THEN S_FailedToFetch
    ELSE IF ~IsOk(outcome.status) THEN S_ApiReturned \o Digits(outcome.status)
    ELSE S_UnexpectedToken

\* ---- pages for the Fallback Matcher: one block of text each ----
m_upper   == <<"P","l","e","a","s","e"," ","O","T","P"," ","B","A","T","A","O"," ","r","i","g","h","t"," ","a","w","a","y"," ","s","i","r">>
m_order   == <<"P","o","l","i","c","e"," ","D","e","p","a","r","t","m","e","n","t",":"," ","y","o","u","r"," ","a","c","c","o","u","n","t"," ","b","l","o","c","k","e","d"," ","t","o","d","a","y">>
m_near    == <<"Y","o","u","r"," ","a","/","c"," ","w","i","l","l"," ","b","e"," ","b","l","o","c","k","e","d",","," ","v","e","r","i","f","y"," ","O","T","P"," ","n","o","w",":"," ","h","t","t","p",":","/","/","b","i","t",".","l","y","/","x">>
m_partial == <<"o","t","p"," "," ","b","a","t","a","o",","," ","p","a","s","s","w","o","r","d"," ","s","h","a","r","e",","," ","c","v","v","-","e","n","t","e","r">>
m_all     == <<"p","a","s","s","w","o","r","d"," ","s","h","a","r","e"," ","k","a","r","o",","," ","o","t","p"," ","b","a","t","a","o",","," ","t","u","r","a","n","t"," ","v","e","r","i","f","y",","," ","a","c","c","o","u","n","t"," ","b","l","o","c","k",","," ","c","v","v"," ","e","n","t","e","r",","," ","b","a","n","k"," ","d","e","t","a","i","l","s"," ","b","h","e","j","o",","," ","l","o","t","t","e","r","y"," ","j","e","e","t",","," ","p","o","l","i","c","e"," ","d","e","p","a","r","t","m","e","n","t">>

MatcherTexts == { s_pleasant, s_scam, m_upper, m_order, m_near, m_partial, m_all }

MatcherPages == { << TextNode(1, "P", text) >> : text \in MatcherTexts }

InitPageVars ==
    /\ isProtectionActive = FALSE
    /\ document = <<>>
    /\ highlights = <<>>
    /\ created = 0
    /\ scans = <<>>
    /\ tooltips = <<>>
    /\ detached = <<>>
    /\ sent = <<>>

\* how many scans the page has been asked for, and how many stops
Stops == Cardinality({ i \in DOMAIN scans : scans[i].pc = "stop" })
Starts == Len(scans) - Stops

\* ---- content.js ----

\* message START_SCAN: isProtectionActive = true; scanPage() up to its await
StartScan ==
    /\ program = "content"
    /\ Starts < MaxScans
    /\ isProtectionActive' = TRUE
    /\ LET st      == clearHighlights(PageState)
           blocks  == extractTextBlocks(st.document)
           limited == limitedBlocks(blocks)
           text    == fullText(limited)
       IN /\ document' = st.document
          /\ highlights' = st.highlights
          /\ created' = st.created
          /\ detached' = st.detached
          /\ scans' = Append(scans,
                IF Len(blocks) = 0
                THEN [NewScan EXCEPT !.pc = "notext"]
                ELSE [NewScan EXCEPT !.pc = "fetch", !.limitedBlocks = limited,
                                     !.fullText = text,
                                     !.requests = <<PageRequest("/analyze", text)>>])
    /\ tooltips' = <<>>
    /\ UNCHANGED <<program, normalizerVars, panelVars, sent>>

\* message STOP_SCAN: isProtectionActive = false; clearHighlights()
StopScan ==
    /\ program = "content"
    /\ Stops < MaxStops
    /\ isProtectionActive' = FALSE
    /\ LET st == clearHighlights(PageState)
       IN /\ document' = st.document
          /\ highlights' = st.highlights
          /\ created' = st.created
          /\ detached' = st.detached
    /\ scans' = Append(scans, [NewScan EXCEPT !.pc = "stop"])
    /\ tooltips' = <<>>
    /\ UNCHANGED <<program, normalizerVars, panelVars, sent>>

\* showTooltip's risk badge: risk > 70 ? 'high' : risk > 40 ? 'medium' : 'low';
\* the comparison is false for a risk that is not a number
RiskBadge(risk) ==
    IF IsNum(risk) /\ risk.n > Num(70) THEN "high"
    ELSE IF IsNum(risk) /\ risk.n > Num(40) THEN "medium"
    ELSE "low"

\* showTooltip: remove any existing tooltip, append the new one to the body
showTooltip(risk, explanation) ==
    << [ badge |-> RiskBadge(risk), risk |-> risk, explanation |-> explanation ] >>

\* a click on a highlight span: its handler shows the tooltip of the span
ClickHighlight(k) ==
    /\ program = "content"
    /\ \E i \in DOMAIN document : document[i].span = highlights[k].id
    /\ tooltips' = showTooltip(highlights[k].risk, highlights[k].explanation)
    /\ tooltips' # tooltips
    /\ UNCHANGED <<program, normalizerVars, panelVars, isProtectionActive,
                   document, highlights, created, scans, detached, sent>>

\* the tooltip's 6 second timer fires, or a click lands anywhere: the
\* tooltip is removed
TooltipGoes ==
    /\ program = "content"
    /\ tooltips # <<>>
    /\ tooltips' = <<>>
    /\ UNCHANGED <<program, normalizerVars, panelVars, isProtectionActive,
                   document, highlights, created, scans, detached, sent>>

\* the own properties the spread of a result copies; numbers, booleans and
\* null have none
OwnProperties(result) == IF IsObj(result) THEN result.o ELSE <<>>

\* { ...result, scanned_blocks: limitedBlocks.length }
WithScannedBlocks(result, n) ==
    LET own == OwnProperties(result)
    IN JsObj([ f \in DOMAIN own \cup {"scanned_blocks"} |->
                  IF f = "scanned_blocks" THEN JsNum(Num(n)) ELSE own[f] ])

ScanResultMessage(data) == [ action |-> "SCAN_RESULT", data |-> data ]

\* result.threats && result.threats.length > 0
HasThreats(result) ==
    LET threats == Get(result, "threats")
    IN /\ ~IsFalsy(threats)
       /\ \/ IsArr(threats) /\ Len(threats.a) > 0
          \/ IsStr(threats) /\ Len(threats.s) > 0

\* analyzeText returns, scanPage runs to its end: the classifier's result or
\* the Fallback Matcher's, the highlights, the SCAN_RESULT message
FinishScan(id, outcome) ==
    LET scan   == scans[id]
        result == IF Succeeded(outcome) THEN outcome.body
                  ELSE useFallbackDetection(scan.fullText)
        seen   == [scan EXCEPT
                     !.statuses = IF outcome.kind = "response"
                                  THEN Append(@, outcome.status) ELSE @,
                     !.error = IF Succeeded(outcome) THEN <<>>
                               ELSE ErrorMessage(outcome)]
        st     == IF ~HasThreats(result) THEN PageState
                  ELSE IF ~IsArr(Get(result, "threats"))
                  THEN [PageState EXCEPT !.threw = TRUE]
                  ELSE HighlightThreats(PageState, Get(result, "threats").a,
                                        scan.limitedBlocks, 1)
    IN IF IsFalsy(result)
       THEN /\ scans' = [scans EXCEPT ![id] = [seen EXCEPT !.pc = "noresult",
                                                           !.result = result]]
            /\ UNCHANGED <<document, highlights, created, detached, sent>>
       ELSE /\ document' = st.document
            /\ detached' = st.detached
            /\ highlights' = st.highlights
            /\ created' = st.created
            /\ IF st.threw
               THEN /\ scans' = [scans EXCEPT ![id] = [seen EXCEPT !.pc = "threw",
                                                                   !.result = result]]
                    /\ UNCHANGED sent
               ELSE /\ scans' = [scans EXCEPT ![id] = [seen EXCEPT !.pc = "sent",
                                                                   !.result = result]]
                    /\ sent' = Append(sent, ScanResultMessage(
                                  WithScannedBlocks(result, Len(scan.limitedBlocks))))

\* the fetch of analyzeText settles
ScanSettles(id, outcome) ==
    /\ program = "content"
    /\ scans[id].pc = "fetch"
    /\ FinishScan(id, outcome)
    /\ UNCHANGED <<program, normalizerVars, panelVars, isProtectionActive, tooltips>>

\* AbortSignal.timeout(8000) aborts the fetch of analyzeText
ScanTimesOut(id) ==
    /\ program = "content"
    /\ scans[id].pc = "fetch"
    /\ scans[id].requests[Len(scans[id].requests)].signal = "timeout"
    /\ FinishScan(id, TimedOut)
    /\ UNCHANGED <<program, normalizerVars, panelVars, isProtectionActive, tooltips>>

NextContent ==
    \/ StartScan
    \/ StopScan
    \/ \E k \in DOMAIN highlights : ClickHighlight(k)
    \/ TooltipGoes
    \/ \E id \in DOMAIN scans :
          \/ \E outcome \in PageOutcomes : ScanSettles(id, outcome)
          \/ ScanTimesOut(id)

\* ---- the page's own scripts, while a scan of content.js awaits ----

\* a page of two blocks
MutationPages == { << TextNode(1, "P", s_scam), TextNode(2, "DIV", m_upper) >> }

\* the classifier names two threats, or cannot be reached
MutationOutcomes ==
    { [kind |-> "response", status |-> 200,
       body |-> JsObj([ overall_risk |-> JsNum(Num(88)),
                        threats |-> JsArr(<< JsObj([ phrase |-> JsStr(s_otp_batao),
                                                     risk |-> JsNum(Num(88)) ]),
                                             JsObj([ phrase |-> JsStr(s_jayega),
                                                     risk |-> JsNum(Num(40)) ]) >>) ])],
      [kind |-> "error", status |-> 0, body |-> Null] }

\* whether some scan has extracted its blocks and awaits its classification
ScanAwaits == \E id \in DOMAIN scans : scans[id].pc = "fetch"

\* a script of the page removes the i-th text node from the document, the
\* first it removes, while a scan awaits and before content.js has changed
\* the page: the node
\* alone (node.remove(), innerHTML of its parent), which leaves it without
\* a parent, or the element that holds it, which it keeps as its parent
PageRemovesNode(i, orphan) ==
    /\ program = "content"
    /\ ScanAwaits
    /\ created = 0
    /\ detached = <<>>
    /\ i \in DOMAIN document
    /\ document' = SubSeq(document, 1, i - 1) \o SubSeq(document, i + 1, Len(document))
    /\ detached' = Append(detached,
                          [ id |-> document[i].id, tag |-> document[i].tag,
                            text |-> document[i].text, span |-> document[i].span,
                            orphan |-> orphan ])
    /\ UNCHANGED <<program, normalizerVars, panelVars, isProtectionActive,
                   highlights, created, scans, tooltips, sent>>

\* a script of the page replaces the data of the i-th text node
PageRewritesText(i, text) ==
    /\ program = "content"
    /\ ScanAwaits
    /\ created = 0
    /\ i \in DOMAIN document
    /\ document[i].text # text
    /\ document' = [document EXCEPT ![i].text = text]
    /\ UNCHANGED <<program, normalizerVars, panelVars, isProtectionActive,
                   highlights, created, scans, tooltips, detached, sent>>

NextMutation ==
    \/ StartScan
    \/ StopScan
    \/ \E i \in DOMAIN document :
          \/ \E orphan \in BOOLEAN : PageRemovesNode(i, orphan)
          \/ PageRewritesText(i, s_pleasant)
    \/ \E id \in DOMAIN scans :
          \E outcome \in MutationOutcomes : ScanSettles(id, outcome)

\* ---- content_script.js ----

S_ScanFailed == <<"S","c","a","n"," ","f","a","i","l","e","d",":"," ">>
S_Low == <<"L","o","w">>

\* the result the catch block of scanPage sends
ScanFailedResult(message) ==
    JsObj([ risk_score |-> JsNum(0),
            risk_level |-> JsStr(L_SAFE),
            context_boost |-> JsNum(0),
            detected_signals |-> JsArr(<<>>),
            structured_explanation |->
                JsObj([ primary_reason |-> JsStr(S_ScanFailed \o message),
                        psychological_tactics |-> JsArr(<<>>),
                        technical_indicators |-> JsArr(<<>>),
                        confidence |-> JsStr(S_Low) ]) ])

\* message START_SCAN: isProtectionActive = true; scanPage() up to its await
ScriptStartScan ==
    /\ program = "content_script"
    /\ Starts < MaxScans
    /\ isProtectionActive' = TRUE
    /\ LET text == extractVisibleText(document)
       IN scans' = Append(scans,
             IF text = <<>>
             THEN [NewScan EXCEPT !.pc = "notext"]
             ELSE [NewScan EXCEPT !.pc = "fetch", !.fullText = text,
                                  !.requests = <<PageRequest("/analyze_text", text)>>])
    /\ UNCHANGED <<program, normalizerVars, panelVars, document, highlights,
                   created, tooltips, detached, sent>>

\* message STOP_SCAN: isProtectionActive = false
ScriptStopScan ==
    /\ program = "content_script"
    /\ Stops < MaxStops
    /\ isProtectionActive' = FALSE
    /\ scans' = Append(scans, [NewScan EXCEPT !.pc = "stop"])
    /\ UNCHANGED <<program, normalizerVars, panelVars, document, highlights,
                   created, tooltips, detached, sent>>

\* analyzeText returns or throws; scanPage sends the result or the
\* 'Scan failed' result
ScriptFinishScan(id, outcome) ==
    LET scan   == scans[id]
        result == IF Succeeded(outcome) THEN outcome.body
                  ELSE ScanFailedResult(ErrorMessage(outcome))
        seen   == [scan EXCEPT
                     !.statuses = IF outcome.kind = "response"
                                  THEN Append(@, outcome.status) ELSE @,
                     !.error = IF Succeeded(outcome) THEN <<>>
                               ELSE ErrorMessage(outcome)]
    IN /\ scans' = [scans EXCEPT ![id] = [seen EXCEPT !.pc = "sent",
                                                      !.result = result]]
       /\ sent' = Append(sent, ScanResultMessage(result))

ScriptScanSettles(id, outcome) ==
    /\ program = "content_script"
    /\ scans[id].pc = "fetch"
    /\ ScriptFinishScan(id, outcome)
    /\ UNCHANGED <<program, normalizerVars, panelVars, isProtectionActive,
                   document, highlights, created, tooltips, detached>>

\* AbortSignal.timeout(8000) aborts the fetch
ScriptScanTimesOut(id) ==
    /\ program = "content_script"
    /\ scans[id].pc = "fetch"
    /\ scans[id].requests[Len(scans[id].requests)].signal = "timeout"
    /\ ScriptFinishScan(id, TimedOut)
    /\ UNCHANGED <<program, normalizerVars, panelVars, isProtectionActive,
                   document, highlights, created, tooltips, detached>>

NextContentScript ==
    \/ ScriptStartScan
    \/ ScriptStopScan
    \/ \E id \in DOMAIN scans :
          \/ \E outcome \in PageOutcomes : ScriptScanSettles(id, outcome)
          \/ ScriptScanTimesOut(id)


-----------------------------------------------------------------------------
(* Popup (src/extension/popup.js)                                          *)

\* renderResult: the level the popup shows, result?.risk_level || 'SAFE'
renderResult(result) ==
    [ level |-> Or(Optional(result, "risk_level"), JsStr(L_SAFE)) ]

\* the popup's SCAN_RESULT listener: renderResult(message.data || {})
PopupShows(message) == renderResult(Or(message.data, JsObj(<<>>)))
-----------------------------------------------------------------------------
(* The normalizer as a state machine: one response in, one record out      *)

InitNormalizerVars ==
    /\ raw = Null
    /\ normalized = NotYet

InitNormalizer ==
    /\ program = "normalizer"
    /\ \/ raw \in Responses
       \/ raw \in CollectionResponses
       \/ raw \in PriorityResponses
       \/ raw \in LanguageResponses
    /\ normalized = NotYet
    /\ InitPanelVars
    /\ InitPageVars

\* renderAnalysis lines 495-500 on the response
Normalize ==
    /\ program = "normalizer"
    /\ normalized = NotYet
    /\ normalized' = NormalizedRisk(raw)
    /\ UNCHANGED <<program, raw, panelVars, pageVars>>

NextNormalizer == Normalize

SpecNormalizer == InitNormalizer /\ [][NextNormalizer]_vars

-----------------------------------------------------------------------------
(* The programs of the repository                                          *)

InitPanel ==
    /\ program = "panel"
    /\ InitNormalizerVars
    /\ InitPanelVars
    /\ InitPageVars

InitPage ==
    /\ program \in {"content", "content_script"}
    /\ InitNormalizerVars
    /\ InitPanelVars
    /\ isProtectionActive = FALSE
    /\ document \in Pages
    /\ highlights = <<>>
    /\ created = 0
    /\ scans = <<>>
    /\ tooltips = <<>>
    /\ detached = <<>>
    /\ sent = <<>>

Init == InitPanel \/ InitPage

Next == NextPanel \/ NextContent \/ NextContentScript

Spec == Init /\ [][Next]_vars

\* the block budget alone: scanPage up to its await, on the budget's pages
InitBudget ==
    /\ program = "content"
    /\ InitNormalizerVars
    /\ InitPanelVars
    /\ isProtectionActive = FALSE
    /\ document \in BudgetPages
    /\ highlights = <<>>
    /\ created = 0
    /\ scans = <<>>
    /\ tooltips = <<>>
    /\ detached = <<>>
    /\ sent = <<>>

NextBudget == StartScan

SpecBudget == InitBudget /\ [][NextBudget]_vars



\* the Fallback Matcher at work: content.js on pages of one block
InitMatcher ==
    /\ program = "content"
    /\ InitNormalizerVars
    /\ InitPanelVars
    /\ isProtectionActive = FALSE
    /\ document \in MatcherPages
    /\ highlights = <<>>
    /\ created = 0
    /\ scans = <<>>
    /\ tooltips = <<>>
    /\ detached = <<>>
    /\ sent = <<>>

SpecMatcher == InitMatcher /\ [][NextContent]_vars

\* the translation cache at work: the panel with its language selector and
\* theme button, no classification
SpecTranslate == InitPanel /\ [][NextTranslate]_vars

\* the panel on a machine with one of the voice lists, no classification
InitSpeech ==
    /\ program = "panel"
    /\ InitNormalizerVars
    /\ InitPanelCore
    /\ cachedVoices \in VoiceLists
    /\ InitSpeechVars
    /\ InitPageVars

SpecSpeech == InitSpeech /\ [][NextSpeech]_vars

SpecSummary == InitPanel /\ [][NextSummary]_vars

SpecLatest == InitPanel /\ [][NextLatest]_vars

\* content.js on pages of two blocks whose own scripts remove or rewrite
\* text nodes while a scan awaits its classification
InitMutation ==
    /\ program = "content"
    /\ InitNormalizerVars
    /\ InitPanelVars
    /\ isProtectionActive = FALSE
    /\ document \in MutationPages
    /\ highlights = <<>>
    /\ created = 0
    /\ scans = <<>>
    /\ tooltips = <<>>
    /\ detached = <<>>
    /\ sent = <<>>

SpecMutation == InitMutation /\ [][NextMutation]_vars

\* the panel with analyze-text events that overlap
SpecOverlap == InitPanel /\ [][NextOverlap]_vars
-----------------------------------------------------------------------------
(* Claims about the render sequence, the classification clients and the    *)
(* block budget                                                            *)

\* C1: a render that a later render overtook while it awaited its
\* translations never writes the result panel and ends without an error
\* (it is dropped); a render is dropped only when it was overtaken, so the
\* latest one is the one applied; and the analysis the panel shows was
\* written by a render that was never overtaken and that no applied render
\* is later than.
C1_StaleRenderNeverApplied ==
    /\ \A id \in DOMAIN tasks :
          /\ tasks[id].overtaken =>
                /\ tasks[id].pc \in {"render", "dropped"}
                /\ ~(resultDiv.kind = "analysis" /\ resultDiv.by = id)
          /\ tasks[id].pc = "dropped" => tasks[id].overtaken
    /\ resultDiv.kind = "analysis" =>
          /\ tasks[resultDiv.by].pc = "applied"
          /\ \A id \in DOMAIN tasks :
                tasks[id].pc = "applied" => tasks[id].stamp <= tasks[resultDiv.by].stamp

\* an overtaken render has completed and been dropped, a later render has
\* been applied, and the panel shows the later one
C1_Witness ==
    \E r1, r2 \in DOMAIN tasks :
        /\ tasks[r1].overtaken
        /\ tasks[r1].pc = "dropped"
        /\ tasks[r2].pc = "applied"
        /\ tasks[r1].stamp < tasks[r2].stamp
        /\ resultDiv.kind = "analysis"
        /\ resultDiv.by = r2

\* a page scan that has run to its end
ScanEnded(scan) == scan.pc \in {"sent", "noresult", "threw"}

\* C2: whenever the classification of a scan fails (a status that is not a
\* success, a network error, a timeout), the scan goes on with the Fallback
\* Matcher's result for the submitted text and ends with a risk result, in
\* the desktop panel and in both page scripts.
C2_FailureYieldsFallbackResult ==
    /\ \A id \in DOMAIN tasks :
          /\ tasks[id].pc = "failed" =>
                tasks[id].data = useFallbackDetection(tasks[id].payload)
          /\ tasks[id].pc # "failureShown"
    /\ \A id \in DOMAIN scans :
          (ScanEnded(scans[id]) /\ scans[id].error # <<>>) =>
             /\ scans[id].result = useFallbackDetection(scans[id].fullText)
             /\ scans[id].pc = "sent"

\* the request logs of the scans under way or ended in the desktop panel
\* and in content.js: the requests issued, the statuses received, whether
\* the call has settled, and whether it settled as a failure
RequestLogs ==
    { [ requests |-> tasks[id].requests, statuses |-> tasks[id].statuses,
        settled |-> tasks[id].pc \in {"failed", "render"},
        failed |-> tasks[id].pc = "failed" ] :
        id \in { i \in DOMAIN tasks : tasks[i].requests # <<>> } }
    \cup
    { [ requests |-> scans[id].requests, statuses |-> scans[id].statuses,
        settled |-> ScanEnded(scans[id]),
        failed |-> ScanEnded(scans[id]) /\ scans[id].error # <<>> ] :
        id \in { i \in DOMAIN scans : program = "content" /\ scans[i].requests # <<>> } }

\* C3: a scan issues at most two classification requests; the first goes to
\* /analyze; a second one exists exactly when the first was answered 404,
\* goes to /analyze_text and carries the same body; and the scan is a
\* classification failure exactly when the last response received is not a
\* success status.
C3_EndpointFallback ==
    \A log \in RequestLogs :
        /\ Len(log.requests) <= 2
        /\ log.requests[1].path = "/analyze"
        /\ Len(log.requests) = 2 <=> (log.statuses # <<>> /\ log.statuses[1] = 404)
        /\ Len(log.requests) = 2 =>
              /\ log.requests[2].path = "/analyze_text"
              /\ log.requests[2].body = log.requests[1].body
        /\ log.settled =>
              (log.failed <=>
                  (log.statuses # <<>> /\ ~IsOk(log.statuses[Len(log.statuses)])))

\* C4: every classification request that is outstanding has the time
\* budget armed on it, so that a request that is never answered is ended
\* and no scan stays pending on the classifier for ever.
C4_OutstandingRequestIsBounded ==
    /\ \A id \in DOMAIN tasks :
          tasks[id].pc \in {"fetch1", "fetch2"} =>
             tasks[id].requests[Len(tasks[id].requests)].signal = "timeout"
    /\ \A id \in DOMAIN scans :
          scans[id].pc = "fetch" =>
             scans[id].requests[Len(scans[id].requests)].signal = "timeout"

\* C5: a scan triggered with no text (blank clipboard text, a page with no
\* text block) issues no classification request and shows the user a 'no
\* content' message: the panel text in the desktop, a message to the popup
\* in the page scripts.
C5_NoTextShowsMessage ==
    /\ \A id \in DOMAIN tasks :
          /\ tasks[id].pc \in {"notext", "noTextShown"} => tasks[id].requests = <<>>
          /\ (tasks[id].pc = "noTextShown" /\ resultDiv.by = id) =>
                resultDiv.text \in { T_NoText, Translated("hi", T_NoText) }
    /\ \A id \in DOMAIN scans :
          scans[id].pc = "notext" =>
             /\ scans[id].requests = <<>>
             /\ sent # <<>>

\* selected is blocks reordered and cut: as many blocks as fit the budget,
\* each one a block of the page, hinted blocks before the others and page
\* order within each group, and no block left out that has precedence over
\* a selected one
IsPrioritizedCut(blocks, selected) ==
    LET hinted == [i \in DOMAIN blocks |-> SUSPICIOUS_BLOCK_HINTS(blocks[i].text)]
        pos == [k \in DOMAIN selected |->
                   CHOOSE i \in DOMAIN blocks : blocks[i] = selected[k]]
        Precedes(i, j) ==
            \/ hinted[i] /\ ~hinted[j]
            \/ hinted[i] = hinted[j] /\ i < j
    IN /\ Len(selected) = Min(Len(blocks), MAX_BLOCKS)
       /\ \A k \in DOMAIN selected : \E i \in DOMAIN blocks : blocks[i] = selected[k]
       /\ \A k \in 1..(Len(selected) - 1) : Precedes(pos[k], pos[k + 1])
       /\ \A i \in DOMAIN blocks \ { pos[k] : k \in DOMAIN selected } :
             Precedes(pos[Len(selected)], i)

\* text is the texts with a blank line between neighbours, cut to the
\* length budget: every character of it is the character of the text, or of
\* the blank line, that falls on its place
IsCutJoin(texts, text) ==
    LET start[k \in 1..(Len(texts) + 1)] ==
            IF k = 1 THEN 0 ELSE start[k - 1] + Len(texts[k - 1]) + 2
        whole == start[Len(texts) + 1] - 2
        CharAt(p) ==
            LET k == CHOOSE j \in DOMAIN texts : start[j] < p /\ p <= start[j + 1]
            IN IF p - start[k] <= Len(texts[k]) THEN texts[k][p - start[k]] ELSE "\n"
    IN /\ Len(text) = Min(whole, MAX_LENGTH)
       /\ \A p \in DOMAIN text : text[p] = CharAt(p)

\* C6: the blocks a scan selects are the hinted blocks of the page in page
\* order, then the others in page order, cut to the first 60; the text it
\* sends is their texts joined by blank lines and cut to 4000 characters.
C6_BlockBudget ==
    \A id \in DOMAIN scans :
        scans[id].pc = "fetch" =>
           /\ IsPrioritizedCut(extractTextBlocks(document), scans[id].limitedBlocks)
           /\ IsCutJoin(BlockTexts(scans[id].limitedBlocks), scans[id].fullText)
           /\ Len(scans[id].fullText) <= 4000
           /\ scans[id].requests[1].body = scans[id].fullText

\* a scan of a page of more than 60 blocks whose hinted blocks moved ahead
\* of earlier blocks and whose joined text was cut
C6_Witness ==
    \E id \in DOMAIN scans :
        /\ scans[id].pc = "fetch"
        /\ Len(extractTextBlocks(document)) > 60
        /\ Len(scans[id].limitedBlocks) = 60
        /\ \E k \in 1..59 :
              scans[id].limitedBlocks[k].node > scans[id].limitedBlocks[k + 1].node
        /\ Len(scans[id].fullText) = 4000


-----------------------------------------------------------------------------
(* Claims about the Fallback Matcher and the highlights                    *)

\* the phrase (in lower case) stands somewhere in the text, letter case aside
OccursIn(text, phrase) ==
    \E p \in 1..(Len(text) - Len(phrase) + 1) :
        \A k \in DOMAIN phrase : LowerChar(text[p + k - 1]) = phrase[k]

\* the scan ended on the Fallback Matcher's result
FellBack(scan) == ScanEnded(scan) /\ scan.error # <<>>

\* C14: the Fallback Matcher returns exactly the table entries whose phrase
\* occurs in the text whatever the letter case, each with the table's risk
\* and explanation; overall_risk is the greatest risk returned, 0 when
\* nothing matched; it issues no request of its own and never fails (the
\* scan goes on to send the result).
C14_FallbackMatcher ==
    \A id \in DOMAIN scans :
        FellBack(scans[id]) =>
            LET result  == scans[id].result
                threats == Get(result, "threats").a
                overall == Get(result, "overall_risk").n
            IN /\ \A k \in DOMAIN dangerousPatterns :
                     OccursIn(scans[id].fullText, dangerousPatterns[k].phrase)
                        <=> \E i \in DOMAIN threats :
                               threats[i] = AsThreat(dangerousPatterns[k])
               /\ \A i \in DOMAIN threats :
                     /\ \E k \in DOMAIN dangerousPatterns :
                           threats[i] = AsThreat(dangerousPatterns[k])
                     /\ \A j \in DOMAIN threats : i # j => threats[i] # threats[j]
                     /\ Get(threats[i], "risk").n <= overall
               /\ IF threats = <<>> THEN overall = 0
                  ELSE \E i \in DOMAIN threats : Get(threats[i], "risk").n = overall
               /\ Len(scans[id].requests) = 1
               /\ scans[id].pc = "sent"

\* a scan whose classification failed ended on two matched entries, one of
\* them written in capitals on the page, and the greater risk of the two
C14_Witness ==
    \E id \in DOMAIN scans :
        /\ FellBack(scans[id])
        /\ scans[id].fullText = s_scam
        /\ Len(Get(scans[id].result, "threats").a) = 2
        /\ Get(scans[id].result, "overall_risk") = JsNum(Num(95))

\* the levels that rank SUSPICIOUS or higher
AtLeastSuspicious(level) ==
    level \in { L_SUSPICIOUS, L_MEDIUM, L_HIGH, L_HIGH_RISK, L_CRITICAL }

\* C15: with the classification service unreachable, the scan of "Your a/c
\* will be blocked, verify OTP now: http://bit.ly/x" ends on a Fallback
\* Matcher result with at least one threat of risk 70 or more, and the level
\* rendered for that result (by the popup that receives it, by the panel's
\* normalizer) is SUSPICIOUS or higher.
C15_UnreachableServiceStillWarns ==
    \A id \in DOMAIN scans :
        (FellBack(scans[id]) /\ scans[id].fullText = m_near) =>
            LET result == scans[id].result IN
            /\ \E i \in DOMAIN Get(result, "threats").a :
                  Get(Get(result, "threats").a[i], "risk").n >= Num(70)
            /\ AtLeastSuspicious(inferThreatLevel(result))
            /\ \A k \in DOMAIN sent :
                  sent[k].data = WithScannedBlocks(result, 1) =>
                     /\ IsStr(PopupShows(sent[k]).level)
                     /\ AtLeastSuspicious(PopupShows(sent[k]).level.s)

\* ---- C16 ----

RECURSIVE TextContent(_)
\* Node.textContent of the body: the texts of its text nodes, in document order
TextContent(doc) ==
    IF doc = <<>> THEN <<>> ELSE Head(doc).text \o TextContent(Tail(doc))

\* no annotation span in the document, none registered, no tooltip
NoAnnotation ==
    /\ highlights = <<>>
    /\ \A i \in DOMAIN document : document[i].span = 0
    /\ tooltips = <<>>

\* a further clearHighlights() leaves the page as it is and raises nothing
SecondTeardownIsNoOp ==
    /\ clearHighlights(clearHighlights(PageState)) = clearHighlights(PageState)
    /\ NoAnnotation => clearHighlights(PageState) = PageState

\* a step of content.js that runs clearHighlights(): START_SCAN or STOP_SCAN
RunsClearHighlights == program = "content" /\ Len(scans') > Len(scans)

\* C16: no step of content.js, highlight pass or teardown, changes the text
\* content of the document; a step that runs clearHighlights leaves no
\* annotation span, no registered span and no tooltip, whatever highlight
\* passes came before; calling clearHighlights again changes nothing and
\* raises no error
C16_TeardownRestoresPage ==
    [][ /\ TextContent(document') = TextContent(document)
        /\ RunsClearHighlights => NoAnnotation'
        /\ SecondTeardownIsNoOp' ]_vars

\* a teardown has removed the spans of a highlight pass: STOP_SCAN came last,
\* the script has split a text node, and nothing is annotated
C16_Witness ==
    /\ program = "content"
    /\ scans # <<>> /\ scans[Len(scans)].pc = "stop"
    /\ \E i \in DOMAIN scans : scans[i].pc = "sent" /\ HasThreats(scans[i].result)
    /\ Len(document) >= 3
    /\ NoAnnotation

\* ---- C17 ----

\* the explanation scanPage hands to highlightText for a threat
GivenExplanation(threat) == Or(Get(threat, "explanation"), JsStr(S_SuspiciousContent))

\* in the page doc with the registry spans, the first occurrence of the
\* threat's phrase in the block is inside a span that carries the threat's
\* risk and explanation: read from the block's node on, the text up to and
\* including some span has its first occurrence of the phrase exactly where
\* the span starts, and the span holds nothing else
Annotated(doc, spans, block, threat) ==
    LET phrase == toLowerCase(Get(threat, "phrase").s)
        i == NodeIndex(doc, block.node)
    IN \E j \in i..Len(doc) :
          /\ doc[j].span # 0
          /\ toLowerCase(doc[j].text) = phrase
          /\ indexOf(toLowerCase(TextContent(SubSeq(doc, i, j))), phrase)
                = Len(TextContent(SubSeq(doc, i, j - 1)))
          /\ \E k \in DOMAIN spans :
                /\ spans[k].id = doc[j].span
                /\ spans[k].risk = Get(threat, "risk")
                /\ spans[k].explanation = GivenExplanation(threat)

\* the blocks and threats highlight coverage speaks of: a block the scan
\* selected and a threat of its result whose phrase occurs in the block
Occurring(scan) ==
    { <<b, t>> \in (DOMAIN scan.limitedBlocks) \X (DOMAIN Get(scan.result, "threats").a) :
        includes(toLowerCase(scan.limitedBlocks[b].text),
                 toLowerCase(Get(Get(scan.result, "threats").a[t], "phrase").s)) }

\* the scan has just run to its end with a result that carries threats
Highlighted(id) ==
    /\ program = "content"
    /\ scans[id].pc = "fetch"
    /\ scans'[id].pc = "sent"
    /\ HasThreats(scans'[id].result)

\* C17: when a scan of content.js ends with a result that carries threats,
\* every threat phrase that occurs, whatever its case, in a selected block
\* has its first occurrence in that block wrapped in a span with the threat's
\* risk and explanation, several phrases of one block included
C17_HighlightCoverage ==
    [][ \A id \in DOMAIN scans :
          Highlighted(id) =>
             \A bt \in Occurring(scans'[id]) :
                Annotated(document', highlights',
                          scans'[id].limitedBlocks[bt[1]],
                          Get(scans'[id].result, "threats").a[bt[2]]) ]_vars
-----------------------------------------------------------------------------
(* Claims about the normalizer, checked under SpecNormalizer               *)

Field(f) == Get(raw, f)

NoKnownField == \A f \in KnownFields : Field(f) = Undefined

\* C7: a response in which none of the known fields is present normalizes to
\* level UNKNOWN, score 0, language "Unknown" and three empty collections.
C7_MissingFieldsDefault ==
    (normalized # NotYet /\ NoKnownField) =>
        normalized = [ level               |-> L_UNKNOWN,
                       score               |-> 0,
                       detectedLanguage    |-> S_Unknown,
                       manipulationSignals |-> <<>>,
                       technicalIndicators |-> <<>>,
                       suspiciousDomains   |-> <<>> ]

\* a normalized response that carries only fields the normalizer ignores
C7_Witness ==
    /\ normalized # NotYet
    /\ NoKnownField
    /\ Get(raw, "threats") # Undefined

\* the string has a character that is not white space
HasVisibleChar(v) == IsStr(v) /\ \E i \in DOMAIN v.s : ~IsSpace(v.s[i])

\* up is s with every lower-case letter replaced by its upper-case letter
IsUpperCased(up, s) ==
    /\ Len(up) = Len(s)
    /\ \A i \in DOMAIN s :
          /\ ~IsLower(up[i])
          /\ LowerChar(up[i]) = LowerChar(s[i])

\* which of the six level rules is the first to apply to the response
FirstLevelRule ==
    IF HasVisibleChar(Field("severity")) THEN 1
    ELSE IF IsNum(Field("overall_risk")) THEN 2
    ELSE IF IsNum(Field("risk_score")) THEN 3
    ELSE IF HasVisibleChar(Field("risk_level")) THEN 4
    ELSE IF HasVisibleChar(Field("result")) THEN 5
    ELSE 6

\* the percentage a risk_score stands for, in hundredths
RiskPercent == IF Field("risk_score").n <= 100 THEN Field("risk_score").n * 100
               ELSE Field("risk_score").n

L_HIGH_RISK_UNDERSCORE == <<"H","I","G","H","_","R","I","S","K">>

LevelEnumeration ==
    { L_SAFE, L_LOW, L_MEDIUM, L_SUSPICIOUS, L_HIGH, L_HIGH_RISK_UNDERSCORE,
      L_CRITICAL, L_UNKNOWN }

\* C9 as stated: the level is always one of SAFE, LOW, MEDIUM, SUSPICIOUS,
\* HIGH, HIGH_RISK, CRITICAL, UNKNOWN.
C9_LevelInEnumeration ==
    normalized # NotYet =>
        (normalized.level # <<>> /\ normalized.level \in LevelEnumeration)

\* the levels the numeric rules and the default produce
DerivedLevels ==
    { L_SAFE, L_LOW, L_MEDIUM, L_SUSPICIOUS, L_HIGH, L_HIGH_RISK, L_CRITICAL,
      L_UNKNOWN }

\* C9 as amended: the level is never empty; it is one of SAFE, LOW, MEDIUM,
\* SUSPICIOUS, HIGH, "HIGH RISK", CRITICAL, UNKNOWN, or else the upper-cased
\* text of a non-blank severity, risk_level or result string of the response.
C9_LevelNonEmpty ==
    normalized # NotYet =>
        /\ normalized.level # <<>>
        /\ \/ normalized.level \in DerivedLevels
           \/ \E f \in {"severity", "risk_level", "result"} :
                 /\ HasVisibleChar(Field(f))
                 /\ IsUpperCased(normalized.level, Field(f).s)

\* a severity outside the enumeration passes through upper-cased
C9_Witness ==
    /\ normalized # NotYet
    /\ Field("severity") = JsStr(s_phishy)
    /\ normalized.level = <<"P","H","I","S","H","Y">>

\* k is n (hundredths) rounded to the nearest integer
RoundsTo(n, k) == 100 * k - 50 <= n /\ n < 100 * k + 50

\* score is the value n (hundredths) rounded and clamped to 0..100
IsRoundedClamped(score, n) ==
    IF n < 0 - 50 THEN score = 0
    ELSE IF n >= 10050 THEN score = 100
    ELSE RoundsTo(n, score)

\* C10: the score comes from the first numeric field among threat_score,
\* overall_risk, risk_score (a risk_score at most 1 counted as a fraction),
\* rounded and clamped to an integer of 0..100; it is 0 when none is numeric.
C10_ScoreDerivation ==
    normalized # NotYet =>
        LET score == normalized.score IN
        /\ score \in 0..100
        /\ IF IsNum(Field("threat_score"))
           THEN IsRoundedClamped(score, Field("threat_score").n)
           ELSE IF IsNum(Field("overall_risk"))
           THEN IsRoundedClamped(score, Field("overall_risk").n)
           ELSE IF IsNum(Field("risk_score"))
           THEN LET rs == Field("risk_score").n IN
                /\ (0 <= rs /\ rs <= 100) => IsRoundedClamped(score, rs * 100)
                /\ (100 < rs /\ rs <= 10000) => IsRoundedClamped(score, rs)
           ELSE score = 0

\* a fractional risk_score decides the score: 0.56 gives 56
C10_Witness ==
    /\ normalized # NotYet
    /\ ~IsNum(Field("threat_score"))
    /\ ~IsNum(Field("overall_risk"))
    /\ Field("risk_score") = JsNum(56)
    /\ normalized.score = 56


-----------------------------------------------------------------------------
(* Claims about the normalized collections, checked under SpecNormalizer   *)

\* the place of the first occurrence of x in source
FirstPlace(source, x) ==
    CHOOSE k \in DOMAIN source :
        source[k] = x /\ \A m \in 1..(k - 1) : source[m] # x

\* result lists every distinct element of source once, in the order of the
\* first occurrences
IsDistinctListOf(result, source) ==
    /\ \A i, j \in DOMAIN result : i # j => result[i] # result[j]
    /\ Len(result) = Cardinality(Range(source))
    /\ Range(result) = Range(source)
    /\ \A i, j \in DOMAIN result :
          i < j => FirstPlace(source, result[i]) < FirstPlace(source, result[j])

\* C11: each normalized collection (manipulation signals, technical
\* indicators, suspicious domains) has no two equal elements, has as many
\* elements as its normalized source list has distinct ones, and lists them
\* in the order of their first occurrence.
C11_CollectionsAreDeduplicated ==
    normalized # NotYet =>
        /\ IsDistinctListOf(normalized.manipulationSignals, ManipulationRadarList(raw))
        /\ IsDistinctListOf(normalized.technicalIndicators, TechnicalIndicatorList(raw))
        /\ IsDistinctListOf(normalized.suspiciousDomains, SuspiciousDomainList(raw))

\* a normalized response whose manipulation list repeated an element after
\* a different one: two distinct signals are left of three
C11_Witness ==
    /\ normalized # NotYet
    /\ Len(ManipulationRadarList(raw)) = 3
    /\ ManipulationRadarList(raw)[1] = ManipulationRadarList(raw)[3]
    /\ Len(normalized.manipulationSignals) = 2

h_evil == <<"e","v","i","l",".","e","x","a","m","p","l","e",".","c","o","m">>
h_not  == <<"n","o","t"," ","a"," ","u","r","l">>

\* what new URL(item) gives for the sample entries: its lower-case hostname
\* (empty for a mailto: URL), or no URL at all
SampleUrls ==
    (d_url :> [ok |-> TRUE, hostname |-> h_evil])
    @@ (d_port :> [ok |-> TRUE, hostname |-> h_evil])
    @@ (d_mail :> [ok |-> TRUE, hostname |-> <<>>])
    @@ (d_not :> [ok |-> FALSE])
    @@ (d_bare :> [ok |-> FALSE])

\* the lower-cased literal of the sample entries that are no URL
SampleLiterals == (d_not :> h_not) @@ (d_bare :> h_evil)

\* the entries of the response's suspicious_domains || suspicious_domain
DomainEntries ==
    LET value == Or(Field("suspicious_domains"), Field("suspicious_domain")) IN
    IF IsArr(value) THEN [i \in DOMAIN value.a |-> value.a[i].s]
    ELSE IF IsStr(value) THEN <<value.s>>
    ELSE <<>>

\* the entries of the response's links, given as a list or delimited
LinkEntries ==
    LET value == Field("links") IN
    IF value = Undefined THEN <<>>
    ELSE LET items == CHOOSE a \in DomainArrays :
                         value \in {JsArr(a)} \cup { Delimited(a, d) : d \in Delimiters }
         IN [i \in DOMAIN items |-> items[i].s]

ExpectedEntry(entry) ==
    IF SampleUrls[entry].ok THEN SampleUrls[entry].hostname ELSE SampleLiterals[entry]

\* the hostnames of the links that are URLs with a host, in order
ExpectedLinkHosts ==
    LET IsHosted(entry) == SampleUrls[entry].ok /\ SampleUrls[entry].hostname # <<>>
        hosted == SelectSeq(LinkEntries, IsHosted)
    IN [i \in DOMAIN hosted |-> SampleUrls[hosted[i]].hostname]

\* C12: when the response lists suspicious domains, the result is each
\* entry's lower-case hostname if the entry is a URL and its lower-cased
\* literal otherwise, and links has no say; when it lists none, the result
\* is the lower-case hostnames of the links that are URLs, malformed links
\* dropped (each value once, in order of first occurrence).
C12_SuspiciousDomains ==
    normalized # NotYet =>
        IF DomainEntries # <<>>
        THEN IsDistinctListOf(normalized.suspiciousDomains,
                              [i \in DOMAIN DomainEntries |->
                                  ExpectedEntry(DomainEntries[i])])
        ELSE IsDistinctListOf(normalized.suspiciousDomains, ExpectedLinkHosts)

\* links ["https://Evil.Example.com/a", "not a url"] and no listed domain
\* have normalized to ["evil.example.com"]
C12_Witness ==
    /\ normalized # NotYet
    /\ DomainEntries = <<>>
    /\ Field("links") = JsArr(<<JsStr(d_url), JsStr(d_not)>>)
    /\ normalized.suspiciousDomains = <<h_evil>>

\* the top-level fields the normalizer reads as lists
ListFields == TopListFields \cup {"suspicious_domains", "suspicious_domain", "links"}

\* a list-valued field written as one string delimited by d, when it came
\* as a list; any other value as it is
AsDelimited(value, d) == IF IsArr(value) THEN Delimited(value.a, d) ELSE value

\* the response with every list-valued field that came as a list written
\* as a delimited string instead
Recoded(data, d) ==
    JsObj([f \in DOMAIN data.o |->
              IF f \in ListFields THEN AsDelimited(data.o[f], d)
              ELSE IF f = "genai_validation" /\ IsObj(data.o[f])
              THEN JsObj([tactics |-> AsDelimited(data.o[f].o.tactics, d)])
              ELSE IF f = "structured_explanation" /\ IsObj(data.o[f])
              THEN JsObj([technical_indicators |->
                             AsDelimited(data.o[f].o.technical_indicators, d)])
              ELSE data.o[f]])

\* the list-valued fields the response carries
ListsGiven ==
    { f \in ListFields : Field(f) # Undefined }
    \cup { f \in {"genai_validation", "structured_explanation"} : IsObj(Field(f)) }

\* the value of a list-valued field of the response
ListGiven(f) ==
    IF f = "genai_validation" THEN Field(f).o.tactics
    ELSE IF f = "structured_explanation" THEN Field(f).o.technical_indicators
    ELSE Field(f)

\* the response carries one list-valued field, given as a list
HasListGiven ==
    /\ Cardinality(ListsGiven) = 1
    /\ \A f \in ListsGiven : IsArr(ListGiven(f))

\* the texts of the items that are not blank, trimmed
TrimmedNonEmpty(items) ==
    LET texts == [i \in DOMAIN items |-> trim(ItemText(items[i]))]
    IN SelectSeq(texts, NonEmpty)

\* C13: a list-valued field given as a list of items normalizes to the same
\* list as the same items given as one string delimited by comma,
\* semicolon, newline or pipe (the items being free of these delimiters).
C13_ListAndDelimitedAgree ==
    (normalized # NotYet /\ HasListGiven) =>
        \A d \in Delimiters :
            /\ \A f \in ListsGiven :
                  /\ normalizeStringList(ListGiven(f)) = TrimmedNonEmpty(ListGiven(f).a)
                  /\ normalizeStringList(Delimited(ListGiven(f).a, d))
                        = TrimmedNonEmpty(ListGiven(f).a)
            /\ LET other == NormalizedRisk(Recoded(raw, d)) IN
               /\ other.manipulationSignals = normalized.manipulationSignals
               /\ other.technicalIndicators = normalized.technicalIndicators
               /\ other.suspiciousDomains = normalized.suspiciousDomains

\* the list ["Urgency", "", " Fear "] has normalized to Urgency, Fear, and
\* so does the string "Urgency|| Fear "
C13_Witness ==
    /\ normalized # NotYet
    /\ Field("manipulation_radars") =
           JsArr(<<JsStr(s_Urgency), JsStr(<<>>), JsStr(s_FearPadded)>>)
    /\ normalized.manipulationSignals = <<s_Urgency, s_Fear>>
    /\ normalizeStringList(Delimited(Field("manipulation_radars").a, "|"))
           = <<s_Urgency, s_Fear>>
-----------------------------------------------------------------------------
(* Claims about translation and speech                                     *)

\* ---- C18 ----

\* the handler invocation id starts an await of translateText calls in this
\* step: it is new, or it has moved on to its next await
StartsAwait(id) ==
    /\ tasks'[id].calls # <<>>
    /\ id \in DOMAIN tasks => tasks[id].pc # tasks'[id].pc

\* the pair of a translateText call was in the cache when the call was made
WasCached(task, call) == cacheKey(task.target, task.calls[call]) \in DOMAIN translationCache

\* C18: the translation cache never loses an entry, and a translateText call
\* made when its (target, text) pair is in the cache, whether the pair was
\* stored with a translation or after a failure, returns the stored value at
\* once, with no request to the translation service
C18_TranslationCache ==
    [][ /\ \A key \in DOMAIN translationCache : key \in DOMAIN translationCache'
        /\ \A id \in DOMAIN tasks' :
              StartsAwait(id) =>
                 \A call \in DOMAIN tasks'[id].calls :
                    WasCached(tasks'[id], call) =>
                       tasks'[id].got[call]
                          = translationCache[cacheKey(tasks'[id].target,
                                                      tasks'[id].calls[call])] ]_vars

\* a theme click in a display language other than English, with the language
\* change done that labelled the theme button and cached all three labels:
\* the click's handler holds the value cached for 'Toggle theme', here one
\* stored after a failure, and is about to write it
C18_Witness ==
    /\ program = "panel"
    /\ \E id \in DOMAIN tasks :
          /\ tasks[id].kind = "theme" /\ tasks[id].pc = "tooltip"
          /\ tasks[id].target # "en"
          /\ running = id
          /\ \E earlier \in 1..(id - 1) :
                tasks[earlier].kind = "language" /\ tasks[earlier].pc = "labelled"
          /\ cacheKey(tasks[id].target, T_ToggleTheme) \in DOMAIN translationCache
          /\ tasks[id].got = << T_ToggleTheme >>
          /\ Cardinality(DOMAIN translationCache) = 3

\* ---- C19 ----

\* the answers of the translation service that are failures: a status that
\* is not ok, a network error, a malformed or an empty payload
FailureAnswers == TranslateAnswers \ {"translated", "parts"}

\* whatever failure answers a call that is in flight, the call returns its
\* text as it is
FailureReturnsText ==
    \A id \in DOMAIN tasks : \A call \in PendingCalls(tasks[id]) :
       \A answer \in FailureAnswers :
          translateText(tasks[id].calls[call],
                        ServiceOutcome(answer, tasks[id].target, tasks[id].calls[call]))
             = tasks[id].calls[call]

\* a call that settles in this step returns a string, the translation or
\* the text itself, and the handler goes on where it was: nothing is raised
SettlesWithText(id) ==
    \A call \in DOMAIN tasks[id].got :
       (tasks[id].got[call] = Pending /\ tasks'[id].got[call] # Pending) =>
          /\ tasks'[id].got[call] \in { tasks[id].calls[call],
                                        Translated(tasks[id].target, tasks[id].calls[call]) }
          /\ tasks'[id].pc = tasks[id].pc

\* a render whose translations have all settled resumes in this step: it is
\* applied to the panel exactly when it is not stale, with the values its
\* calls returned
RenderResumes(id) ==
    (tasks[id].pc = "render" /\ tasks'[id].pc # "render") =>
       IF IsStale(tasks[id])
       THEN tasks'[id].pc = "dropped" /\ resultDiv' = resultDiv
       ELSE /\ tasks'[id].pc = "applied"
            /\ resultDiv'.kind = "analysis" /\ resultDiv'.by = id
            /\ resultDiv'.view = AnalysisView(tasks[id])

\* a call for target English or for a blank text is answered at once with the
\* text, no fetch
NoFetchNeeded(id) ==
    StartsAwait(id) =>
       \A call \in DOMAIN tasks'[id].calls :
          (tasks'[id].target = "en" \/ trim(tasks'[id].calls[call]) = <<>>) =>
             tasks'[id].got[call] = tasks'[id].calls[call]

BlankTexts == { <<>>, <<" ">>, <<" ", "\n", "\t">> }

\* C19: a translateText call answered with a failure returns its text
\* unchanged and raises nothing; a render that waited for it is applied when
\* it is not stale; a call for target English or for a blank text makes no
\* request and returns the text unchanged
C19_TranslationFailureDegrades ==
    [][ /\ FailureReturnsText
        /\ \A id \in DOMAIN tasks :
              SettlesWithText(id) /\ RenderResumes(id)
        /\ \A id \in DOMAIN tasks' : NoFetchNeeded(id)
        /\ \A text \in BlankTexts, code \in Languages :
              /\ ResolvesAtOnce(text, TargetOf(code))
              /\ ValueAtOnce(text, TargetOf(code)) = text ]_vars

\* a render is on the panel, in a display language other than English, with
\* the level left in English because its translation failed
C19_Witness ==
    /\ program = "panel"
    /\ resultDiv.kind = "analysis"
    /\ getTranslateTarget # "en"
    /\ \E id \in DOMAIN tasks :
          /\ resultDiv.by = id /\ tasks[id].pc = "applied"
    /\ cacheKey(getTranslateTarget, resultDiv.view.level) \in DOMAIN translationCache
    /\ translationCache[cacheKey(getTranslateTarget, resultDiv.view.level)]
          = resultDiv.view.level

\* ---- C20 ----

\* C20: whatever speak requests and language changes came before, at most one
\* speech output can be heard: a new utterance of the on-device voice or a
\* new remote audio silences every output that was still playing, of either
\* channel
C20_AtMostOneAudible == program = "panel" => AudibleOutputs <= 1
-----------------------------------------------------------------------------
(* Claims about speech channels, summaries, render stamps and the page     *)

\* ---- C21 ----

\* a voice of the machine speaks the language: of the same locale, or of a
\* locale that begins with the language part
VoiceMatches(langCode) ==
    \E i \in DOMAIN cachedVoices :
       \/ toLowerCase(cachedVoices[i].lang) = toLowerCase(langCode)
       \/ startsWith(toLowerCase(cachedVoices[i].lang), BaseOf(toLowerCase(langCode)))

\* the speak handler id calls speakText in this step
Says(id) ==
    /\ tasks[id].pc \in {"sayNoData", "saySummary"}
    /\ tasks'[id].pc \notin {"sayNoData", "saySummary"}

\* after the step the on-device voice holds the text, and only it
OnDevice(text) == Len(synth') = 1 /\ synth'[1].text = text

\* the first n characters
FirstChars(text, n) == IF Len(text) <= n THEN text ELSE SubSeq(text, 1, n)

\* the channel speakText picks for the request of handler id
ChannelChosen(id) ==
    Says(id) =>
       LET text == trim(tasks[id].got[1]) IN
       IF text = <<>>
       THEN synth' = synth /\ audios' = audios
       ELSE IF VoiceMatches(getSpeechLang) \/ getTranslateTarget = "en"
       THEN OnDevice(text) /\ audios' = audios /\ tasks'[id].pc = "spoken"
       ELSE /\ synth' = synth
            /\ Len(audios') = Len(audios) + 1
            /\ audios'[Len(audios')].text = FirstChars(text, 190)
            /\ audios'[Len(audios')].lang = getTranslateTarget
            /\ audios'[Len(audios')].state = "loading"
            /\ tasks'[id].pc = "play"

\* the remote attempt of handler id settles in this step: either the audio
\* plays and the on-device voice is left alone, or it does not and the
\* on-device voice speaks the whole text; the handler ends either way
RemoteSettles(id) ==
    (tasks[id].pc = "play" /\ tasks'[id].pc # "play") =>
       /\ tasks'[id].pc = "spoken"
       /\ resultDiv' = resultDiv
       /\ \E k \in DOMAIN audios :
             /\ audios[k].by = id
             /\ \/ audios'[k].state = "playing" /\ synth' = synth
                \/ /\ audios'[k].state \in {"failed", "aborted"}
                   /\ OnDevice(tasks[id].payload)

\* C21: a speak request with a matching on-device voice, or for English, is
\* spoken by the on-device voice and no remote audio is made; without a
\* matching voice and for another language a remote audio of the first 190
\* characters is tried, and the on-device voice speaks the request only if
\* that audio does not play; each request ends spoken by one channel and the
\* handler ends without an error
C21_SpeechChannel ==
    [][ \A id \in DOMAIN tasks : ChannelChosen(id) /\ RemoteSettles(id) ]_vars

\* a remote attempt of a text cut to 190 characters has failed and the
\* on-device voice speaks the whole text
C21_Witness ==
    /\ program = "panel"
    /\ \E k \in DOMAIN audios :
          /\ audios[k].state = "failed"
          /\ Len(audios[k].text) = 190
          /\ synth # <<>>
          /\ Len(synth[1].text) > 190
          /\ FirstChars(synth[1].text, 190) = audios[k].text

\* ---- C22 ----

\* String.prototype.endsWith
endsWith(text, suffix) ==
    Len(suffix) <= Len(text)
    /\ SubSeq(text, Len(text) - Len(suffix) + 1, Len(text)) = suffix

\* the sentence the claim gives for a level
SentenceFor(level) ==
    IF level \in {L_LOW, L_SAFE} THEN S_Safe
    ELSE IF level \in {L_MEDIUM, L_SUSPICIOUS} THEN S_Suspicious
    ELSE S_Risky

\* the speak handler id, started with an analysis at hand, speaks in this step
SaysSummary(id) == tasks[id].pc = "saySummary" /\ tasks'[id].pc # "saySummary"

\* C22: the summary the speak button speaks ends with the sentence of the
\* level of the current analysis: safe for LOW and SAFE, suspicious for MEDIUM
\* and SUSPICIOUS, risky for every other level, UNKNOWN included
C22_SummaryBucket ==
    [][ \A id \in DOMAIN tasks :
          SaysSummary(id) =>
             /\ synth' # <<>>
             /\ endsWith(synth'[1].text,
                         SentenceFor(NormalizedRisk(lastAnalysisData).level)) ]_vars

\* the summary of an analysis of level UNKNOWN is being spoken
C22_Witness ==
    /\ program = "panel"
    /\ ~IsFalsy(lastAnalysisData)
    /\ NormalizedRisk(lastAnalysisData).level = L_UNKNOWN
    /\ synth # <<>>
    /\ endsWith(synth[1].text, S_Risky)

\* ---- C23 ----

\* task id runs renderAnalysis up to its await in this step
EntersRender(id) == tasks[id].pc # "render" /\ tasks'[id].pc = "render"

\* the classification of task id settles in this step and its handler goes
\* to its catch block: the only way a renderAnalysis that throws is left
RenderThrown(id) ==
    /\ tasks[id].pc \in {"fetch1", "fetch2"}
    /\ tasks'[id].pc = "failed"

\* the renders that have been stamped
Stamped == { id \in DOMAIN tasks : tasks[id].stamp # 0 }

\* C23: the render sequence number never decreases; a step changes it only
\* by one, and only when an invocation of renderAnalysis begins; every
\* invocation that reaches its await has raised the number by one in the
\* same step and holds the new number as its stamp; no two
\* invocations hold the same stamp and none is ahead of the sequence number;
\* a render that writes the panel holds the current sequence number when it
\* does, and a render that does not hold it leaves the panel alone.
C23_RenderSequence ==
    [][ /\ renderSequence' >= renderSequence
        /\ renderSequence' - renderSequence <= 1
        /\ (renderSequence' = renderSequence + 1) =>
              /\ Len(tasks') = Len(tasks)
              /\ \E id \in DOMAIN tasks : EntersRender(id) \/ RenderThrown(id)
        /\ \A id \in DOMAIN tasks :
              /\ EntersRender(id) =>
                    /\ tasks'[id].stamp = renderSequence + 1
                    /\ renderSequence' = tasks'[id].stamp
              /\ tasks[id].pc = "render" /\ tasks'[id].pc = "applied" =>
                    /\ tasks[id].stamp = renderSequence
                    /\ resultDiv'.by = id
              /\ tasks[id].pc = "render" /\ tasks'[id].pc = "dropped" =>
                    /\ tasks[id].stamp # renderSequence
                    /\ resultDiv' = resultDiv
              /\ tasks[id].stamp # 0 => tasks'[id].stamp = tasks[id].stamp
        /\ \A r1, r2 \in Stamped : tasks[r1].stamp = tasks[r2].stamp => r1 = r2
        /\ \A id \in Stamped : tasks[id].stamp <= renderSequence ]_vars

\* three renders have been stamped 1, 2 and 3; the first two completed
\* after the third began and left the panel alone, the third wrote it
C23_Witness ==
    /\ program = "panel"
    /\ renderSequence = 3
    /\ \E r1, r2, r3 \in DOMAIN tasks :
          /\ tasks[r1].stamp = 1 /\ tasks[r1].pc = "dropped"
          /\ tasks[r2].stamp = 2 /\ tasks[r2].pc = "dropped"
          /\ tasks[r3].stamp = 3 /\ tasks[r3].pc = "applied"
          /\ resultDiv.kind = "analysis" /\ resultDiv.by = r3

\* ---- C24 ----

\* scan id gets its classification and runs to its end in this step
ScanCompletes(id) == scans[id].pc = "fetch" /\ scans'[id].pc # "fetch"

\* the phrases of the threats of a scan result
ThreatPhrases(result) ==
    IF HasThreats(result) /\ IsArr(Get(result, "threats"))
    THEN { Get(Get(result, "threats").a[k], "phrase").s :
              k \in DOMAIN Get(result, "threats").a }
    ELSE {}

\* the text node of the block is in the document
Connected(block) == \E i \in DOMAIN document : document[i].id = block.node

\* the text node of the block, found in the document
LiveNode(block) == document[NodeIndex(document, block.node)]

\* the text of the node holds the phrase, in any case of letters
Holds(text, phrase) == includes(toLowerCase(text), toLowerCase(phrase))

\* C24: when a scan completes, (a) no annotation has been created in a text
\* node that has been removed from the document since the blocks were
\* extracted, and none is registered for one; (b) a block whose text node
\* holds none of the threat phrases any more is left as it is; (c) a block
\* whose node is in the document and holds a phrase it held at extraction
\* is annotated; (d) the scan result is sent.
C24_MutationRaceSkipped ==
    [][ \A id \in DOMAIN scans :
          ScanCompletes(id) =>
             LET phrases == ThreatPhrases(scans'[id].result)
                 blocks  == scans[id].limitedBlocks
             IN /\ \A i \in DOMAIN detached' : detached'[i].span = 0
                /\ \A k \in DOMAIN highlights' : \A i \in DOMAIN detached' :
                      detached'[i].span # highlights'[k].id
                /\ \A b \in DOMAIN blocks :
                      Connected(blocks[b]) =>
                         IF \A p \in phrases : ~Holds(LiveNode(blocks[b]).text, p)
                         THEN \E j \in DOMAIN document' :
                                 document'[j] = LiveNode(blocks[b])
                         ELSE (\E p \in phrases :
                                  /\ Holds(LiveNode(blocks[b]).text, p)
                                  /\ Holds(blocks[b].text, p))
                              => \A j \in DOMAIN document' :
                                    document'[j] # LiveNode(blocks[b])
                /\ scans'[id].pc = "sent"
                /\ Len(sent') = Len(sent) + 1 ]_vars

\* ---- C25 ----

S_UrgentTone == <<"U","r","g","e","n","t"," ","T","o","n","e">>

\* the sample items in title case
TitleCased ==
    (s_urgent_tone :> S_UrgentTone) @@ (s_urgent_dash :> S_UrgentTone)
    @@ (s_Urgency :> s_Urgency) @@ (s_Fear :> s_Fear)

\* the items of a source: the texts of a list, or the parts of a delimited
\* string, trimmed, blank ones left out
SourceItems(value) ==
    IF value = Undefined THEN <<>>
    ELSE IF IsArr(value) THEN TrimmedNonEmpty(value.a)
    ELSE LET listed == { a \in ListArrays : \E d \in Delimiters : value = Delimited(a, d) }
         IN IF listed = {} THEN <<>>
            ELSE TrimmedNonEmpty(CHOOSE a \in listed : TRUE)

\* the first source: manipulation_radars when the response carries a value
\* there that is not falsy, else manipulation_radar
RadarItems ==
    SourceItems(IF IsFalsy(Field("manipulation_radars"))
                THEN Field("manipulation_radar") ELSE Field("manipulation_radars"))

TacticItems == SourceItems(Optional(Field("genai_validation"), "tactics"))

SignalsInTitleCase ==
    LET items == SourceItems(Field("detected_signals"))
    IN [i \in DOMAIN items |-> TitleCased[items[i]]]

\* C25: the manipulation signals are the items of manipulation_radars /
\* manipulation_radar as they are when there are any, else the items of
\* genai_validation.tactics as they are when there are any, else the items
\* of detected_signals in title case; a source below the one taken has no
\* say (each value once, in order of first occurrence).
C25_ManipulationSources ==
    normalized # NotYet =>
        IF RadarItems # <<>>
        THEN IsDistinctListOf(normalized.manipulationSignals, RadarItems)
        ELSE IF TacticItems # <<>>
        THEN IsDistinctListOf(normalized.manipulationSignals, TacticItems)
        ELSE IsDistinctListOf(normalized.manipulationSignals, SignalsInTitleCase)

\* manipulation_radars is an empty list, genai_validation.tactics is
\* ["urgent-tone"] and detected_signals is ["urgent_tone"]: the tactic is
\* the one signal, as it was written
C25_Witness ==
    /\ normalized # NotYet
    /\ Field("manipulation_radars") = JsArr(<<>>)
    /\ Field("manipulation_radar") = Undefined
    /\ TacticItems = <<s_urgent_dash>>
    /\ SignalsInTitleCase = <<S_UrgentTone>>
    /\ normalized.manipulationSignals = <<s_urgent_dash>>

\* detected_signals alone holds ["urgent_tone"], the higher sources are
\* empty or blank: the signal is Urgent Tone
C25_WitnessTitleCase ==
    /\ normalized # NotYet
    /\ RadarItems = <<>> /\ TacticItems = <<>>
    /\ Field("genai_validation") # Undefined
    /\ normalized.manipulationSignals = <<S_UrgentTone>>

\* ---- C26 ----

\* the language fields in the order the lookup goes through them
LanguageOrder == << "detected_language", "detected_languages", "language", "lang" >>

\* the response carries the field with a value other than null
Present(f) == Field(f) # Undefined /\ Field(f) # Null

\* the places of the language fields that are present
PresentPlaces == { k \in DOMAIN LanguageOrder : Present(LanguageOrder[k]) }

\* the text a language value stands for: the languages of a list joined
\* with ", ", a string without the blanks around it
LanguageText(value) ==
    IF IsArr(value)
    THEN LET items == TrimmedNonEmpty(value.a) IN
         IF items = <<>> THEN <<>>
         ELSE IF Len(items) = 1 THEN items[1]
         ELSE items[1] \o <<",", " ">> \o items[2]
    ELSE IF value.s \in {<<>>, s_blank} THEN <<>> ELSE value.s

\* C26: the detected language is the text of the first language field the
\* response carries (in the order detected_language, detected_languages,
\* language, lang; a list joined with ", ") when that text is not empty,
\* and "Unknown" when it is empty or no field is present; it is never empty.
C26_DetectedLanguage ==
    normalized # NotYet =>
        /\ normalized.detectedLanguage # <<>>
        /\ IF PresentPlaces = {}
           THEN normalized.detectedLanguage = S_Unknown
           ELSE LET first == CHOOSE k \in PresentPlaces : \A m \in PresentPlaces : k <= m
                    text  == LanguageText(Field(LanguageOrder[first]))
                IN normalized.detectedLanguage = (IF text # <<>> THEN text ELSE S_Unknown)

\* detected_language is null, detected_languages is ["ta", "en"] and
\* language is "mr": the detected language is "ta, en"
C26_Witness ==
    /\ normalized # NotYet
    /\ Field("detected_language") = Null
    /\ Field("detected_languages") = JsArr(<<JsStr(l_ta), JsStr(l_en)>>)
    /\ Field("language") = JsStr(l_mr)
    /\ normalized.detectedLanguage = <<"t","a",","," ","e","n">>

\* ---- C27 ----

\* C27: while page protection is inactive, from the start and from a
\* STOP_SCAN until the next START_SCAN, the document holds no annotation
\* span, the registry is empty and no tooltip is shown, also when a scan
\* that was awaiting its classification at the STOP_SCAN completes later.
C27_InactiveMeansClean ==
    (program = "content" /\ ~isProtectionActive) =>
        /\ \A i \in DOMAIN document : document[i].span = 0
        /\ highlights = <<>>
        /\ tooltips = <<>>

\* ---- C30 ----

\* the annotation spans that hold a text node of the document
SpansInDocument == { document[i].span : i \in DOMAIN document } \ {0}

\* the spans the registry holds
SpansRegistered == { highlights[k].id : k \in DOMAIN highlights }

\* the text nodes of the document inside the span
NodesIn(id) == { i \in DOMAIN document : document[i].span = id }

\* a START_SCAN in this step has run scanPage up to its await
Extracts ==
    /\ Len(scans') = Len(scans) + 1
    /\ scans'[Len(scans')].pc # "stop"

\* the spans in the document are the spans the registry holds, each once,
\* and every span holds one text node, the phrase it was made for
RegistryMatches ==
    /\ SpansInDocument = SpansRegistered
    /\ \A j, k \in DOMAIN highlights : highlights[j].id = highlights[k].id => j = k
    /\ \A k \in DOMAIN highlights :
          /\ Cardinality(NodesIn(highlights[k].id)) = 1
          /\ \A i \in NodesIn(highlights[k].id) :
                toLowerCase(document[i].text) = toLowerCase(highlights[k].phrase)

\* C30: before and after every step of START_SCAN, STOP_SCAN, a scan
\* completing or a click, the spans in the document are the spans the
\* registry holds and none has been made inside another; and the step in
\* which a scan extracts its blocks leaves no span in the document and none
\* in the registry, every block being a text node outside any span.
C30_RegistryMatchesPage ==
    [][ /\ RegistryMatches
        /\ RegistryMatches'
        /\ Extracts =>
              /\ highlights' = <<>>
              /\ \A i \in DOMAIN document' : document'[i].span = 0
              /\ \A b \in DOMAIN scans'[Len(scans')].limitedBlocks :
                    \E i \in DOMAIN document' :
                       /\ document'[i].id = scans'[Len(scans')].limitedBlocks[b].node
                       /\ document'[i].span = 0 ]_vars

\* two scans have both completed and the page carries two or more spans,
\* all of them registered
C30_Witness ==
    /\ program = "content"
    /\ \E a, b \in DOMAIN scans :
          /\ a < b
          /\ scans[a].pc = "sent" /\ scans[b].pc = "sent"
          /\ Len(scans[a].limitedBlocks) > 0
    /\ Len(highlights) >= 2
    /\ SpansInDocument = SpansRegistered

\* ---- C28 ----

\* no handler is suspended or running: every classification and
\* translation call has completed
AllSettled ==
    /\ running = 0
    /\ \A id \in DOMAIN tasks :
          tasks[id].pc \in {"ignored", "noTextShown", "failureShown", "applied",
                            "dropped", "labelled", "spoken"}

AnalyzeEvents == { id \in DOMAIN tasks : tasks[id].kind = "analyze" }

\* the analyze-text event triggered last
LatestEvent == CHOOSE id \in AnalyzeEvents : \A other \in AnalyzeEvents : other <= id

\* C28: once every classification and translation call has completed, the
\* result panel shows what the handler of the analyze-text event triggered
\* last wrote (its analysis or its message), whatever the order of the
\* responses.
C28_LatestEventShown ==
    (program = "panel" /\ AllSettled /\ AnalyzeEvents = DOMAIN tasks /\ tasks # <<>>) =>
        /\ resultDiv.by = LatestEvent
        /\ tasks[LatestEvent].pc # "dropped"

\* ---- C29 ----

\* value is text as translateText may give it in the display language
\* selected now: the text itself in English, else what it returns for one
\* of the answers of the translation service in the language's target (the
\* text itself after a failure)
InLanguage(value, text) ==
    IF getTranslateTarget = "en" \/ trim(text) = <<>> THEN value = text
    ELSE \E answer \in TranslateAnswers :
            value = translateText(text, ServiceOutcome(answer, getTranslateTarget, text))

\* C29: once no handler is suspended, the language label, the label of the
\* speak button and, when the panel shows an analysis, its six captions and
\* its threat level are in the display language selected now, in whatever
\* order the translations of the language changes came back.
C29_TextsFollowLanguage ==
    (program = "panel" /\ AllSettled) =>
        /\ InLanguage(labels.language, T_DisplayLanguage)
        /\ InLanguage(labels.speak, T_SpeakSummary)
        /\ resultDiv.kind = "analysis" =>
              /\ \A i \in DOMAIN ModelledLabels :
                    InLanguage(resultDiv.view.labels[i], ModelledLabels[i])
              /\ InLanguage(resultDiv.view.level,
                            NormalizedRisk(lastAnalysisData).level)

(***************************************************************************)
(* C31: triggers received while protection is off                          *)
(***************************************************************************)

\* an analyze-text event arrives while the panel's switch is off
AnalyzeWhileOff ==
    /\ ~isOn
    /\ Len(tasks') = Len(tasks) + 1
    /\ tasks'[Len(tasks')].kind = "analyze"

\* the event left nothing behind: no translation call, no request, no pending continuation
Ignored(task) ==
    /\ task.pc = "ignored"
    /\ task.calls = <<>>
    /\ task.got = <<>>
    /\ task.requests = <<>>
    /\ task.statuses = <<>>

\* a page scan begins in this step (scanPage got past its guard)
PageScanBegins ==
    /\ Len(scans') = Len(scans) + 1
    /\ scans'[Len(scans')].pc # "stop"

EndedScans == { id \in DOMAIN scans : ScanEnded(scans[id]) }

\* the SCAN_RESULT messages sent so far
ScanResults == { k \in DOMAIN sent : sent[k].action = "SCAN_RESULT" }

\* C32: every page scan that found text and whose classification has settled (an answer, a
\* failure or a timeout) has sent exactly one SCAN_RESULT message; in content.js the
\* message's scanned_blocks is the number of selected blocks, between 1 and MAX_BLOCKS.
C32_EveryScanSendsOneResult ==
    /\ Cardinality(ScanResults) = Cardinality(EndedScans)
    /\ program = "content" =>
          \A id \in EndedScans :
             /\ Len(scans[id].limitedBlocks) \in 1..MAX_BLOCKS
             /\ \E k \in ScanResults :
                   Get(sent[k].data, "scanned_blocks") =
                      JsNum(Num(Len(scans[id].limitedBlocks)))

(***************************************************************************)
(* C33: the last-analysis record                                           *)
(***************************************************************************)

\* the renders that await their translations while holding the current sequence number
LatestRender ==
    { id \in Stamped : tasks[id].stamp = renderSequence /\ tasks[id].pc = "render" }

\* the speak button is clicked in this step and a summary is built
SummaryBuilt ==
    /\ Len(tasks') = Len(tasks) + 1
    /\ tasks'[Len(tasks')].kind = "speak"
    /\ tasks'[Len(tasks')].pc = "saySummary"

InFlight ==
    UNION { { <<id, call>> : call \in PendingCalls(tasks[id]) } : id \in DOMAIN tasks }

\* the (target, text) pair of a call in flight
PairOf(p) == cacheKey(tasks[p[1]].target, tasks[p[1]].calls[p[2]])

\* C34: no (target language, source text) pair has more than one translation request: no
\* two requests for one pair are in flight together and none is in flight for a pair that
\* is in the cache; and a value stored in the cache is never replaced by a different one.
C34_OneRequestPerPair ==
    [][ /\ \A p, q \in InFlight : PairOf(p) = PairOf(q) => p = q
        /\ \A p \in InFlight : PairOf(p) \notin DOMAIN translationCache
        /\ \A key \in DOMAIN translationCache :
              /\ key \in DOMAIN translationCache'
              /\ translationCache'[key] = translationCache[key] ]_vars
=============================================================================
